---------------------------- MODULE Spec2Model ----------------------------
(***************************************************************************)
(* EyeRecorder: the multi-stage capture orchestrator (MultiStageManager),  *)
(* its session store (MultiStageSession), the prompt sequencer thread      *)
(* (VoiceGuide), the frame source (WebSocketManager) and the two buttons   *)
(* of the recorder window that call start and stop.                        *)
(*                                                                         *)
(* Every handler that runs on the Qt main thread is one atomic action: the *)
(* main thread runs one slot / timer callback at a time.  Signals emitted  *)
(* from another thread (VoiceGuide.finished, image_received) are queued    *)
(* and delivered later by a separate action.  Time passes in ticks (Tick): *)
(* a timer, a transition delay and a prompt take the time the program      *)
(* gives them, what is due is served before time goes on, and a click can  *)
(* come at any tick, before or after what is due at that tick.             *)
(*                                                                         *)
(* A message box is modal: the handler that opens it waits in it while the *)
(* event loop goes on serving timers and queued signals, and no button of  *)
(* the window can be clicked until the box is closed.  The two boxes of a  *)
(* completed run are kept open in ui.modal, and closing one runs the rest  *)
(* of the handler that opened it.  The boxes that start opens are followed *)
(* by a return, so they are taken as closed at once.                       *)
(*                                                                         *)
(* Handlers are written as functions from a world record w to a world      *)
(* record, so that a handler that calls another one is their composition.  *)
(* Besides the program's state the record carries what the handler emits   *)
(* and writes, in order (out), and what it returns (ret).                  *)
(*                                                                         *)
(* Spec is the recorder with the default stage plan.  PlanSpec gives the   *)
(* orchestrator other plans, RateSpec a plan whose capture timer never     *)
(* times out, OneRunSpec is a sitting of one run with the fairness of the  *)
(* event loop, and NetSpec is the frame source with the steps of its       *)
(* connection threads interleaved with connect() and disconnect().         *)
(* ListenSpec follows one connection message by message, VoiceSpec one     *)
(* VoiceGuide thread statement by statement, and PipelineSpec is a call of *)
(* one of ImageProcessor's pipelines with each of its arguments.           *)
(* FolderSpec is the recorder on a disk where stage folders cannot be      *)
(* made, UrlSpec the frame source with the address variants of its URL and *)
(* the two statements of _handle_connection_error as separate steps, and   *)
(* EmptyPlanSpec the recorder with a plan of no stages, where start itself *)
(* completes the run and waits under the boxes (the entry "start" of       *)
(* ui.modal) until they are closed.                                        *)
(***************************************************************************)
EXTENDS Integers, Sequences, FiniteSets, TLC

\* ---------------------------------------------------------------- bounds
NumStages == 2      \* len(recording_stages)
MaxClicks == 5      \* clicks on start (while connected) and on stop
MaxFrames == 2      \* image files written, over all sessions
MaxQueued == 1      \* image_received signals waiting in the main thread's queue
MaxLoops == 2       \* connection threads that have not ended (NetSpec)
MaxRetries == 2     \* reconnect_attempts, the rounds through the URL variants

\* ------------------------------------------------- the program's delays
transition_delay_ms == 1500     \* QTimer.singleShot(1500, ...)
countdown_seconds == 3          \* VoiceGuide(..., countdown_seconds=3)
message_seconds == 2            \* time.sleep(2) after each voice message
voice_messages == 3             \* len(stage["voice_messages"]), every default stage
duration_seconds == 5           \* stage["duration_seconds"], every default stage
interval_ms == 200              \* stage["interval_ms"], every default stage
url_variants == 2               \* len(url_variants), for a URL with a port

\* From VoiceGuide.start() to finished.emit(): the sleeps of run(); the
\* beeps are taken to return at once, as winsound.MessageBeep does.
prompt_ms == (voice_messages * message_seconds + countdown_seconds) * 1000

\* stage_duration_timer.start(duration_ms)
duration_ms == duration_seconds * 1000

\* One tick is the longest time that all three delays are multiples of.
RECURSIVE GCD(_, _)
GCD(a, b) == IF b = 0 THEN a ELSE GCD(b, a % b)

tick_ms == GCD(GCD(transition_delay_ms, duration_ms), prompt_ms)

Stages == 0 .. (NumStages - 1)

\* ------------------------------------------------- RecordingStageConfig
\* A stage of a plan is a function from the fields it has to their values;
\* for name and description only their presence matters, voice_messages
\* is the number of messages.
required_fields ==
    <<"name", "description", "duration_seconds", "interval_ms", "voice_messages">>

DefaultStage ==
    [f \in {required_fields[k] : k \in 1 .. Len(required_fields)} |->
        CASE f = "duration_seconds" -> duration_seconds
          [] f = "interval_ms" -> interval_ms
          [] f = "voice_messages" -> voice_messages
          [] OTHER -> 1]

get_default_stages == [i \in 1 .. NumStages |-> DefaultStage]

\* validate_stage_config: <<valid, the field the message names>>.
validate_stage_config(stage_config) ==
    LET missing == {k \in 1 .. Len(required_fields) :
                       required_fields[k] \notin DOMAIN stage_config}
    IN IF missing # {}
       THEN <<FALSE, required_fields[CHOOSE k \in missing :
                                        \A j \in missing : k <= j]>>
       ELSE IF stage_config["duration_seconds"] <= 0
       THEN <<FALSE, "duration_seconds">>
       ELSE IF stage_config["interval_ms"] <= 0
       THEN <<FALSE, "interval_ms">>
       ELSE IF stage_config["voice_messages"] = 0
       THEN <<FALSE, "voice_messages">>
       ELSE <<TRUE, "OK">>

VARIABLES
    mgr,        \* MultiStageManager's fields
    session,    \* the MultiStageSession mgr.session refers to (NoSession: None)
    guides,     \* the VoiceGuide threads that have not ended, oldest first
    shots,      \* pending QTimer.singleShot(1500, ...) callbacks, oldest first:
                \* the ticks each has left
    timer_left, \* the ticks stage_duration_timer has left while it is active
    disk,       \* the folder under save_path that the current session names
    ws,         \* WebSocketManager's fields
    queued,     \* image_received signals queued for the main thread
    ui,         \* start / stop button enabled flags, and the open message
                \* boxes (modal), the innermost last
    pipeline,   \* the call of an ImageProcessor pipeline that is being looked
                \* at: its arguments and what it returned ("None": no call)
    hist        \* bookkeeping: clicks and frames so far; of the current run its
                \* status ("none", "live", "stopped", "done"), the phase the
                \* orchestrator last entered, the frames saved per stage, the
                \* all_stages_completed notifications and the notifications
                \* of the stage started last (notes)

vars == <<mgr, session, guides, shots, timer_left, disk, ws, queued, ui, pipeline, hist>>

\* ------------------------------------------------------------- helpers
RECURSIVE SumTo(_, _)
SumTo(f, n) == IF n = 0 THEN 0 ELSE f[n - 1] + SumTo(f, n - 1)

RECURSIVE SumSeq(_)
SumSeq(s) == IF s = <<>> THEN 0 ELSE Head(s) + SumSeq(Tail(s))

NoSession == [exists |-> FALSE]
NoDir == [exists |-> FALSE, folders |-> {}, files |-> [k \in Stages |-> 0],
          summary |-> <<>>, has_summary |-> FALSE,
          report |-> [total_images |-> 0, files |-> 0], has_report |-> FALSE,
          zip |-> FALSE]

\* The world a handler works on: the state, and nothing emitted yet.
World == [mgr |-> mgr, session |-> session, guides |-> guides, shots |-> shots,
          timer_left |-> timer_left,
          disk |-> disk, ws |-> ws, ui |-> ui, hist |-> hist,
          out |-> <<>>, ret |-> "none"]

\* The notifications of the stage that was started last, in the order in
\* which the orchestrator emitted them: stage_started begins the list anew,
\* recording_started, stage_completed and recording_stopped are added to it.
RECURSIVE Notes(_, _)
Notes(notes, out) ==
    IF out = <<>> THEN notes
    ELSE LET n == Head(out)
         IN Notes(IF n[1] = "stage_started" THEN <<n>>
                  ELSE IF n[1] \in {"recording_started", "stage_completed",
                                    "recording_stopped"}
                  THEN Append(notes, n)
                  ELSE notes,
                  Tail(out))

Commit(w) ==
    /\ mgr' = w.mgr
    /\ session' = w.session
    /\ guides' = w.guides
    /\ shots' = w.shots
    /\ timer_left' = IF w.mgr.stage_duration_timer THEN w.timer_left ELSE 0
    /\ disk' = w.disk
    /\ ws' = w.ws
    /\ ui' = w.ui
    /\ hist' = [w.hist EXCEPT !.notes = Notes(@, w.out)]
    /\ UNCHANGED pipeline

\* ------------------------------------------------------ WebSocketManager
is_connected(w) == w.ws.is_connected_flag /\ w.ws.websocket

get_current_image(w) == w.ws.current_image


\* ----------------------------------------------------- MultiStageSession
\* The stages of S in increasing order: the order in which
\* _create_stage_folders appends the folders it could create.
Ascending(S) ==
    CHOOSE q \in [1 .. Cardinality(S) -> S] :
        \A i, j \in 1 .. Cardinality(S) : i < j => q[i] < q[j]

\* MultiStageSession(user_info, save_path, recording_stages).
\*   outcome: "ok", "unwritable" (save_path cannot be written: the folder
\*            attribute stays None) or "mkdir_fails" (the folder attribute
\*            is set, os.makedirs of it fails);
\*   same:    the name <username>_multi_stage_<YYYYmmdd_HHMMSS>, made from
\*            the local time in seconds, is the one the previous session
\*            got (both made within one second, or at the same time of day
\*            before and after the clock was set back), so the folder and
\*            what it holds are that session's;
\*   fails:   the stages whose sub-folder os.makedirs cannot create.
\* The session makes a sub-folder for each stage of the plan it is given
\* (planned) and keeps those that exist afterwards.
NewSession(w, outcome, same, fails) ==
    LET folder == IF outcome = "unwritable" THEN "None" ELSE "folder"
        old == IF same THEN w.disk ELSE NoDir
        planned == {k \in Stages : k < Len(w.mgr.recording_stages)}
        made == IF folder = "None" THEN {}
                ELSE planned \cap ((Stages \ fails) \cup old.folders)
        d == IF folder = "None" THEN w.disk
             ELSE [old EXCEPT
                     !.exists = @ \/ outcome = "ok" \/ made # {},
                     !.folders = made \cup old.folders]
    IN [w EXCEPT
          !.session = [exists |-> TRUE,
                       current_session_folder |-> folder,
                       current_stage |-> 0,
                       stage_folders |-> Ascending(made),
                       stage_recording_count |-> 0,
                       recording_count |-> 0],
          !.disk = d,
          !.hist.saved = [k \in 0 .. NumStages |-> 0]]

\* save_stage_image with a total that is not counted up.
save_without_total(w, primary, secondary) ==
    LET s == w.session IN
    IF s.current_stage >= Len(s.stage_folders)
    THEN [w EXCEPT !.ret = "None"]
    ELSE
    LET k == s.stage_folders[s.current_stage + 1] IN
    IF k \notin w.disk.folders
    THEN [w EXCEPT !.ret = "None"]
    ELSE IF primary \/ secondary
    THEN [w EXCEPT
            !.disk.files[k] = @ + 1,
            !.session.stage_recording_count = @ + 1,
            !.hist.saved[s.current_stage] = @ + 1,
            !.hist.frames = @ + 1,
            !.out = Append(@, <<"saved", k, s.stage_recording_count>>),
            !.ret = "filepath"]
    ELSE [w EXCEPT !.ret = "None"]

\* save_stage_image without the cv2.imwrite path.
save_by_primary_only(w, primary, secondary) ==
    LET s == w.session IN
    IF s.current_stage >= Len(s.stage_folders)
    THEN [w EXCEPT !.ret = "None"]
    ELSE
    LET k == s.stage_folders[s.current_stage + 1] IN
    IF k \notin w.disk.folders
    THEN [w EXCEPT !.ret = "None"]
    ELSE IF primary
    THEN [w EXCEPT
            !.disk.files[k] = @ + 1,
            !.session.stage_recording_count = @ + 1,
            !.session.recording_count = @ + 1,
            !.hist.saved[s.current_stage] = @ + 1,
            !.hist.frames = @ + 1,
            !.out = Append(@, <<"saved", k, s.stage_recording_count>>),
            !.ret = "filepath"]
    ELSE [w EXCEPT !.ret = "None"]

\* save_stage_image: primary is the imencode + tofile path, secondary the
\* cv2.imwrite path tried when the primary one fails. The file is named
\* after the stage, the time and stage_recording_count (six digits), which
\* is the third part of what is written here.
save_stage_image(w, primary, secondary) ==
    LET s == w.session IN
    IF s.current_stage >= Len(s.stage_folders)
    THEN [w EXCEPT !.ret = "None"]
    ELSE
    LET k == s.stage_folders[s.current_stage + 1] IN
    IF k \notin w.disk.folders
    THEN [w EXCEPT !.ret = "None"]
    ELSE IF primary \/ secondary
    THEN [w EXCEPT
            !.disk.files[k] = @ + 1,
            !.session.stage_recording_count = @ + 1,
            !.session.recording_count = @ + 1,
            !.hist.saved[s.current_stage] = @ + 1,
            !.hist.frames = @ + 1,
            !.out = Append(@, <<"saved", k, s.stage_recording_count>>),
            !.ret = "filepath"]
    ELSE [w EXCEPT !.ret = "None"]

\* next_stage that goes on counting.
next_stage_keeping_count(w) ==
    [w EXCEPT !.session.current_stage = @ + 1]

next_stage(w) ==
    [w EXCEPT !.session.current_stage = @ + 1,
              !.session.stage_recording_count = 0]

\* One entry per configured stage i that has an i-th folder in stage_folders:
\* the number of .jpg files in that folder.
SummaryStages(w) ==
    LET s == w.session
        n == IF Len(s.stage_folders) < NumStages THEN Len(s.stage_folders)
             ELSE NumStages
    IN [i \in 1 .. n |->
          IF s.stage_folders[i] \in w.disk.folders
          THEN w.disk.files[s.stage_folders[i]]
          ELSE 0]

create_multi_stage_summary(w) ==
    LET s == w.session IN
    IF s.current_session_folder = "None" \/ ~w.disk.exists
    THEN w
    ELSE [w EXCEPT
            !.disk.summary = SummaryStages(w),
            !.disk.has_summary = TRUE,
            !.out = Append(@, <<"summary", 0>>)]

\* The file list of the report holds the .jpg files of the session folder
\* itself; save_stage_image writes into the stage sub-folders only.
create_session_report(w) ==
    LET s == w.session IN
    IF s.current_session_folder = "None" \/ ~w.disk.exists
    THEN w
    ELSE [w EXCEPT
            !.disk.report =
                [total_images |-> s.recording_count, files |-> 0],
            !.disk.has_report = TRUE,
            !.out = Append(@, <<"report", 0>>)]

create_session_package(w) ==
    LET s == w.session IN
    IF s.current_session_folder = "None" \/ ~w.disk.exists
    THEN [w EXCEPT !.ret = "None"]
    ELSE [w EXCEPT
            !.disk.zip = TRUE,
            !.out = Append(@, <<"archive", 0>>),
            !.ret = "zip_path"]

\* ------------------------------------------------------ MultiStageManager
\* VoiceGuide(stage['voice_messages'], countdown_seconds=3) and its start():
\* the new thread is the one self.voice_guide refers to from now on.
\*   state:   "running", or "emitted" once finished is on its way;
\*   current: self.voice_guide refers to this thread;
\*   left:    the ticks until the thread has played its prompt.
NewGuide(w, stage_index) ==
    LET stage == w.mgr.recording_stages[stage_index + 1] IN
    Append([i \in 1 .. Len(w.guides) |-> [w.guides[i] EXCEPT !.current = FALSE]],
           [state |-> "running", stage |-> stage_index, should_stop |-> FALSE,
            current |-> TRUE,
            left |-> ((stage["voice_messages"] * message_seconds + countdown_seconds)
                       * 1000) \div tick_ms])

\* The innermost message box is closed.
Closed(w) == [w EXCEPT !.ui.modal = SubSeq(@, 1, Len(@) - 1)]

\* EnhancedRecorderWindow.on_all_stages_completed, the slot connected to
\* all_stages_completed, after the box that super() opens is closed.
on_all_stages_completed(w) ==
    [w EXCEPT !.ui.start_recording_btn = TRUE, !.ui.stop_record_btn = FALSE]

\* all_stages_completed.emit(): the notification is recorded with the
\* orchestrator's state at that moment; the slot runs inside the emit and
\* opens its box (BaseRecorderWindow.on_all_stages_completed).
emit_all_stages_completed(w) ==
    [w EXCEPT
       !.out = Append(@, <<"all_stages_completed",
                           [active |-> w.mgr.is_multi_stage_active,
                            recording |-> w.mgr.is_recording,
                            stage_timer |-> w.mgr.stage_timer,
                            duration_timer |-> w.mgr.stage_duration_timer]>>),
       !.hist.run = IF @ = "live" THEN "done" ELSE @,
       !.hist.completes = @ + 1,
       !.ui.modal = Append(@, "completed")]

finalize_session(w) ==
    IF w.session.exists
    THEN create_session_package(create_session_report(create_multi_stage_summary(w)))
    ELSE w

\* _complete_all_stages that leaves is_multi_stage_active as it is.
complete_staying_active(w) ==
    LET w1 == finalize_session(
                  [w EXCEPT !.mgr.is_recording = FALSE,
                            !.mgr.stage_timer = FALSE,
                            !.mgr.stage_duration_timer = FALSE,
                            !.hist.phase = "idle"])
    IN IF w1.ret = "zip_path"
       THEN [w1 EXCEPT !.out = Append(@, <<"information", 0>>),
                       !.ui.modal = Append(@, "package")]
       ELSE emit_all_stages_completed(w1)

\* _complete_all_stages up to its message box, which it opens when the
\* archive was written; without the box it goes on to the notification.
complete_all_stages(w) ==
    LET w1 == finalize_session(
                  [w EXCEPT !.mgr.is_multi_stage_active = FALSE,
                            !.mgr.is_recording = FALSE,
                            !.mgr.stage_timer = FALSE,
                            !.mgr.stage_duration_timer = FALSE,
                            !.hist.phase = "idle"])
    IN IF w1.ret = "zip_path"
       THEN [w1 EXCEPT !.out = Append(@, <<"information", 0>>),
                       !.ui.modal = Append(@, "package")]
       ELSE emit_all_stages_completed(w1)

\* set_recording_stages: the plan is taken as it is.
set_recording_stages(w, stages) == [w EXCEPT !.mgr.recording_stages = stages]

\* _start_stage; ret is "KeyError" when stage["name"] or
\* stage["voice_messages"] raises it.
start_stage(w, stage_index) ==
    IF stage_index >= Len(w.mgr.recording_stages)
    THEN complete_all_stages(w)
    ELSE
    LET stage == w.mgr.recording_stages[stage_index + 1]
        w1 == [w EXCEPT !.mgr.current_stage = stage_index,
                        !.mgr.stage_recording_count = 0]
    IN IF "name" \notin DOMAIN stage
       THEN [w1 EXCEPT !.ret = "KeyError"]
       ELSE IF "voice_messages" \notin DOMAIN stage
       THEN [w1 EXCEPT !.out = Append(@, <<"stage_started", stage_index + 1>>),
                       !.ret = "KeyError"]
       ELSE [w1 EXCEPT
               !.out = Append(@, <<"stage_started", stage_index + 1>>),
               !.guides = NewGuide(w, stage_index),
               !.mgr.voice_guide = "VoiceGuide",
               !.hist.phase = "prompting"]

\* _start_stage_recording; ret is "KeyError" when stage["interval_ms"] or
\* stage["duration_seconds"] raises it.
start_stage_recording(w, stage_index) ==
    IF stage_index # w.mgr.current_stage
    THEN w
    ELSE
    LET stage == w.mgr.recording_stages[stage_index + 1]
        w1 == [w EXCEPT !.mgr.is_recording = TRUE,
                        !.mgr.stage_recording_count = 0]
    IN IF "interval_ms" \notin DOMAIN stage
       THEN [w1 EXCEPT !.ret = "KeyError"]
       ELSE IF "duration_seconds" \notin DOMAIN stage
       THEN [w1 EXCEPT !.mgr.stage_timer = TRUE, !.ret = "KeyError"]
       ELSE [w1 EXCEPT
               !.mgr.stage_timer = TRUE,
               !.mgr.stage_duration_timer = TRUE,
               !.out = Append(@, <<"recording_started", stage_index + 1>>),
               !.timer_left = (stage["duration_seconds"] * 1000) \div tick_ms,
               !.hist.phase = "recording"]

\* _capture_stage_image without its test of the current frame.
capture_without_frame_test(w, processed, primary, secondary) ==
    IF ~w.mgr.is_multi_stage_active \/ ~w.mgr.is_recording
    THEN [w EXCEPT !.ret = "False"]
    ELSE IF ~w.mgr.websocket_client
    THEN [w EXCEPT !.ret = "False"]
    ELSE IF ~processed
    THEN [w EXCEPT !.ret = "False"]
    ELSE
    LET w1 == save_stage_image(w, primary, secondary) IN
    IF w1.ret = "filepath"
    THEN [w1 EXCEPT
            !.mgr.stage_recording_count = @ + 1,
            !.out = Append(@, <<"progress_updated", w.mgr.current_stage + 1>>),
            !.ret = "True"]
    ELSE [w1 EXCEPT !.ret = "False"]

\* _capture_stage_image that counts a frame whatever the save returned.
capture_counting_failures(w, processed, primary, secondary) ==
    IF ~w.mgr.is_multi_stage_active \/ ~w.mgr.is_recording
    THEN [w EXCEPT !.ret = "False"]
    ELSE IF ~w.mgr.websocket_client
    THEN [w EXCEPT !.ret = "False"]
    ELSE IF ~get_current_image(w)
    THEN [w EXCEPT !.ret = "False"]
    ELSE IF ~processed
    THEN [w EXCEPT !.ret = "False"]
    ELSE
    LET w1 == save_stage_image(w, primary, secondary) IN
    [w1 EXCEPT
       !.mgr.stage_recording_count = @ + 1,
       !.ret = IF w1.ret = "filepath" THEN "True" ELSE "False"]

\* _capture_stage_image that ends the recording when it finds no frame.
capture_aborting_without_frame(w, processed, primary, secondary) ==
    IF ~w.mgr.is_multi_stage_active \/ ~w.mgr.is_recording
    THEN [w EXCEPT !.ret = "False"]
    ELSE IF ~w.mgr.websocket_client
    THEN [w EXCEPT !.ret = "False"]
    ELSE IF ~get_current_image(w)
    THEN [w EXCEPT !.mgr.is_recording = FALSE,
                   !.mgr.stage_timer = FALSE,
                   !.mgr.stage_duration_timer = FALSE,
                   !.ret = "False"]
    ELSE IF ~processed
    THEN [w EXCEPT !.ret = "False"]
    ELSE
    LET w1 == save_stage_image(w, primary, secondary) IN
    IF w1.ret = "filepath"
    THEN [w1 EXCEPT
            !.mgr.stage_recording_count = @ + 1,
            !.out = Append(@, <<"progress_updated", w.mgr.current_stage + 1>>),
            !.ret = "True"]
    ELSE [w1 EXCEPT !.ret = "False"]

\* processed: _process_image_for_saving returned an image.
capture_stage_image(w, processed, primary, secondary) ==
    IF ~w.mgr.is_multi_stage_active \/ ~w.mgr.is_recording
    THEN [w EXCEPT !.ret = "False"]
    ELSE IF ~w.mgr.websocket_client
    THEN [w EXCEPT !.ret = "False"]
    ELSE IF ~get_current_image(w)
    THEN [w EXCEPT !.ret = "False"]
    ELSE IF ~processed
    THEN [w EXCEPT !.ret = "False"]
    ELSE
    LET w1 == save_stage_image(w, primary, secondary) IN
    IF w1.ret = "filepath"
    THEN [w1 EXCEPT
            !.mgr.stage_recording_count = @ + 1,
            !.out = Append(@, <<"progress_updated", w.mgr.current_stage + 1>>),
            !.ret = "True"]
    ELSE [w1 EXCEPT !.ret = "False"]

capture_current_image(w, processed, primary, secondary) ==
    capture_stage_image(w, processed, primary, secondary)

\* _complete_current_stage that ends a stage only once it has a frame.
complete_when_counted(w) ==
    IF w.mgr.stage_recording_count = 0
    THEN w
    ELSE
    LET w1 == [w EXCEPT
                 !.mgr.stage_timer = FALSE,
                 !.mgr.stage_duration_timer = FALSE,
                 !.mgr.is_recording = FALSE,
                 !.out = @ \o << <<"stage_completed", w.mgr.current_stage + 1>>,
                                 <<"recording_stopped", w.mgr.current_stage + 1>> >>,
                 !.hist.phase = "completing"]
    IN [next_stage(w1) EXCEPT !.shots = Append(@, transition_delay_ms \div tick_ms)]

complete_current_stage(w) ==
    LET w1 == [w EXCEPT
                 !.mgr.stage_timer = FALSE,
                 !.mgr.stage_duration_timer = FALSE,
                 !.mgr.is_recording = FALSE,
                 !.out = @ \o << <<"stage_completed", w.mgr.current_stage + 1>>,
                                 <<"recording_stopped", w.mgr.current_stage + 1>> >>,
                 !.hist.phase = "completing"]
    IN [next_stage(w1) EXCEPT !.shots = Append(@, transition_delay_ms \div tick_ms)]

\* stop_multi_stage_recording that leaves the capture timer running.
stop_leaving_capture_timer(w) ==
    LET w1 == [w EXCEPT
                 !.mgr.is_multi_stage_active = FALSE,
                 !.mgr.is_recording = FALSE,
                 !.mgr.stage_duration_timer = FALSE,
                 !.hist.phase = "idle"]
    IN IF w.mgr.voice_guide # "None"
       THEN [w1 EXCEPT
               !.guides = [i \in 1 .. Len(@) |->
                             IF @[i].current
                             THEN [@[i] EXCEPT !.should_stop = TRUE, !.current = FALSE]
                             ELSE @[i]],
               !.mgr.voice_guide = "None"]
       ELSE w1

stop_multi_stage_recording(w) ==
    LET w1 == [w EXCEPT
                 !.mgr.is_multi_stage_active = FALSE,
                 !.mgr.is_recording = FALSE,
                 !.mgr.stage_timer = FALSE,
                 !.mgr.stage_duration_timer = FALSE,
                 !.hist.phase = "idle"]
    IN IF w.mgr.voice_guide # "None"
       THEN [w1 EXCEPT
               !.guides = [i \in 1 .. Len(@) |->
                             IF @[i].current
                             THEN [@[i] EXCEPT !.should_stop = TRUE, !.current = FALSE]
                             ELSE @[i]],
               !.mgr.voice_guide = "None"]
       ELSE w1

\* start_multi_stage_recording without its test of the frame source.
start_unchecked(w, manager, outcome, same, fails) ==
    LET w1 == NewSession([w EXCEPT !.mgr.websocket_client = manager], outcome, same, fails) IN
    IF w1.session.current_session_folder = "None"
    THEN [w1 EXCEPT !.out = Append(@, <<"critical", 0>>), !.ret = "False"]
    ELSE
    LET w2 == start_stage([w1 EXCEPT !.mgr.is_multi_stage_active = TRUE,
                                     !.mgr.current_stage = 0,
                                     !.mgr.stage_recording_count = 0], 0)
    IN IF w2.ret = "KeyError" THEN w2 ELSE [w2 EXCEPT !.ret = "True"]

\* manager: the websocket_manager argument is an object (FALSE: it is None).
start_multi_stage_recording(w, manager, outcome, same, fails) ==
    IF ~manager \/ ~is_connected(w)
    THEN [w EXCEPT !.out = Append(@, <<"warning", 0>>), !.ret = "False"]
    ELSE
    LET w1 == NewSession([w EXCEPT !.mgr.websocket_client = TRUE], outcome, same, fails) IN
    IF w1.session.current_session_folder = "None"
    THEN [w1 EXCEPT !.out = Append(@, <<"critical", 0>>), !.ret = "False"]
    ELSE
    LET w2 == start_stage([w1 EXCEPT !.mgr.is_multi_stage_active = TRUE,
                                     !.mgr.current_stage = 0,
                                     !.mgr.stage_recording_count = 0], 0)
    IN IF w2.ret = "KeyError" THEN w2 ELSE [w2 EXCEPT !.ret = "True"]

\* ------------------------------------------------------------------ Init
\* MultiStageManager.__init__
NewManager ==
    [current_stage |-> 0, stage_recording_count |-> 0,
     is_recording |-> FALSE, is_multi_stage_active |-> FALSE,
     voice_guide |-> "None", websocket_client |-> FALSE,
     recording_stages |-> get_default_stages,
     stage_timer |-> FALSE, stage_duration_timer |-> FALSE]

\* The window and what it owns, but for the orchestrator.
InitWindow ==
    /\ session = NoSession
    /\ guides = <<>>
    /\ shots = <<>>
    /\ timer_left = 0
    /\ disk = NoDir
    /\ ws = [is_running |-> FALSE, is_connected_flag |-> FALSE, websocket |-> FALSE,
             current_image |-> FALSE, current_url_index |-> 0,
             reconnect_attempts |-> 0, loops |-> <<>>]
    /\ queued = 0
    /\ ui = [start_recording_btn |-> TRUE, stop_record_btn |-> FALSE, modal |-> <<>>]
    /\ pipeline = "None"
    /\ hist = [clicks |-> 0, frames |-> 0,
               saved |-> [k \in 0 .. NumStages |-> 0],
               phase |-> "idle", run |-> "none", completes |-> 0,
               notes |-> <<>>]

Init == mgr = NewManager /\ InitWindow

\* --------------------------------------------------- the recorder window
Outcomes == {"ok", "unwritable"}

\* The stage sub-folders whose creation fails.
FailSets == {{}}

\* What a capture step meets: <<processed, primary, secondary>>.
CaptureInputs == {<<TRUE, TRUE, FALSE>>, <<TRUE, FALSE, TRUE>>,
                  <<TRUE, FALSE, FALSE>>, <<FALSE, FALSE, FALSE>>}

\* EnhancedRecorderWindow.start_multi_stage_recording after the orchestrator's
\* start has returned True, lines 455-460.
started(w) ==
    [w EXCEPT !.ui.start_recording_btn = FALSE, !.ui.stop_record_btn = TRUE]

\* The innermost box has been closed and the handler that opened it has
\* returned: if that leaves the start handler waiting for the orchestrator's
\* start ("start" is what is left innermost), start returns and the handler
\* goes on.
returned(w) ==
    IF w.ui.modal # <<>> /\ w.ui.modal[Len(w.ui.modal)] = "start"
    THEN started(Closed(w))
    ELSE w

\* EnhancedRecorderWindow.start_multi_stage_recording: the start button.
\* With a plan of no stages the orchestrator's start opens the boxes of a
\* completed run before it returns; the handler then waits under them.
StartRecording ==
    /\ ui.modal = <<>>
    /\ ui.start_recording_btn
    /\ is_connected(World) => hist.clicks < MaxClicks
    /\ \E outcome \in Outcomes, same \in BOOLEAN, fails \in FailSets :
         /\ same => session.exists /\ session.current_session_folder # "None"
         /\ LET w1 == start_multi_stage_recording(World, TRUE, outcome, same, fails)
                w2 == IF is_connected(World)
                      THEN [w1 EXCEPT !.hist.clicks = @ + 1]
                      ELSE w1
                w3 == IF w2.ret # "True" THEN w2
                      ELSE IF w2.ui.modal = <<>>
                      THEN started([w2 EXCEPT !.hist.run = "live",
                                              !.hist.completes = 0])
                      ELSE [w2 EXCEPT !.ui.modal = <<"start">> \o @,
                                      !.hist.run = "live",
                                      !.hist.completes = 0]
            IN Commit(w3)
    /\ UNCHANGED queued

\* EnhancedRecorderWindow.stop_recording: the stop button.
StopRecording ==
    /\ ui.modal = <<>>
    /\ ui.stop_record_btn
    /\ hist.clicks < MaxClicks
    /\ LET w1 == stop_multi_stage_recording(World)
       IN Commit([w1 EXCEPT !.ui.start_recording_btn = TRUE,
                            !.ui.stop_record_btn = FALSE,
                            !.hist.clicks = @ + 1,
                            !.hist.run = "stopped"])
    /\ UNCHANGED queued

\* The box of _complete_all_stages is closed: the handler goes on to
\* all_stages_completed.emit().
PackageBoxClosed ==
    /\ ui.modal # <<>>
    /\ ui.modal[Len(ui.modal)] = "package"
    /\ Commit(emit_all_stages_completed(Closed(World)))
    /\ UNCHANGED queued

\* The box of BaseRecorderWindow.on_all_stages_completed is closed: the
\* slot goes on.
CompletedBoxClosed ==
    /\ ui.modal # <<>>
    /\ ui.modal[Len(ui.modal)] = "completed"
    /\ Commit(returned(on_all_stages_completed(Closed(World))))
    /\ UNCHANGED queued

\* BaseRecorderWindow.on_image_received, run on the main thread for a queued
\* image_received signal.
OnImageReceived ==
    /\ queued > 0
    /\ queued' = queued - 1
    /\ \E i \in CaptureInputs :
         /\ (i[2] \/ i[3]) => hist.frames < MaxFrames
         /\ IF mgr.is_multi_stage_active
            THEN Commit(capture_current_image(World, i[1], i[2], i[3]))
            ELSE Commit(World)

\* ------------------------------------------------------- timers of mgr
\* stage_timer.timeout -> _capture_stage_image
CaptureTick ==
    /\ mgr.stage_timer
    /\ \E i \in CaptureInputs :
         /\ (i[2] \/ i[3]) => hist.frames < MaxFrames
         /\ Commit(capture_stage_image(World, i[1], i[2], i[3]))
    /\ UNCHANGED queued

\* The oldest pending transition delay has run out.
Fired(w) == [w EXCEPT !.shots = Tail(@)]

\* QTimer.singleShot(1500, lambda: self._start_stage(self.current_stage + 1))
SingleShot ==
    /\ shots # <<>>
    /\ Head(shots) = 0
    /\ Commit(start_stage(Fired(World), mgr.current_stage + 1))
    /\ UNCHANGED queued

\* stage_duration_timer.timeout -> _complete_current_stage
DurationTimeout ==
    /\ mgr.stage_duration_timer
    /\ timer_left = 0
    /\ Commit(complete_current_stage(World))
    /\ UNCHANGED queued

\* ----------------------------------------------------------- VoiceGuide
Without(q, i) == SubSeq(q, 1, i - 1) \o SubSeq(q, i + 1, Len(q))

\* VoiceGuide.run at a test of should_stop: a stopped guide returns, and
\* when it returns shows nowhere; a guide that has played its prompt and
\* is not stopped at its last test emits finished, which is queued for the
\* main thread.  A stop that comes between that test and the emit finds the
\* same guide as one that comes after the emit: finished is on its way.
GuideRun(i) ==
    /\ guides[i].state = "running"
    /\ ~guides[i].should_stop => guides[i].left = 0
    /\ guides' = IF guides[i].should_stop THEN Without(guides, i)
                 ELSE [guides EXCEPT ![i].state = "emitted"]
    /\ UNCHANGED <<mgr, session, shots, timer_left, disk, ws, queued, ui, pipeline, hist>>

GuideStep == \E i \in 1 .. Len(guides) : GuideRun(i)

\* The finished signal of guide i leaves the queue.
Delivered(w, i) == [w EXCEPT !.guides = Without(@, i)]

\* The lambda connected to finished: self._start_stage_recording(stage_index),
\* run on the main thread for a queued finished signal.
FinishedRun(i) ==
    /\ guides[i].state = "emitted"
    /\ Commit(start_stage_recording(Delivered(World, i), guides[i].stage))
    /\ UNCHANGED queued

FinishedDelivered == \E i \in 1 .. Len(guides) : FinishedRun(i)

\* ------------------------------------------------------------------ time
\* Something is due: it is served before the next tick.
Due ==
    \/ queued > 0
    \/ mgr.stage_duration_timer /\ timer_left = 0
    \/ \E i \in 1 .. Len(shots) : shots[i] = 0
    \/ \E i \in 1 .. Len(guides) :
          \/ guides[i].state = "emitted"
          \/ guides[i].should_stop
          \/ guides[i].left = 0

\* One tick passes for every timer, delay and prompt that is under way.
Tick ==
    /\ ~Due
    /\ mgr.stage_duration_timer \/ shots # <<>> \/ guides # <<>>
    /\ timer_left' = IF mgr.stage_duration_timer THEN timer_left - 1 ELSE 0
    /\ shots' = [i \in 1 .. Len(shots) |-> shots[i] - 1]
    /\ guides' = [i \in 1 .. Len(guides) |-> [guides[i] EXCEPT !.left = @ - 1]]
    /\ UNCHANGED <<mgr, session, disk, ws, queued, ui, pipeline, hist>>

\* ------------------------------------------------------ WebSocketManager
\* The manager is the record ws; ws.loops are the connection threads that
\* connect() has started, in the order they were started, each at the
\* point of _connection_loop where it waits or can be preempted:
\*   "loop"       before the test of `while self.is_running`;
\*   "connecting" waiting in websockets.connect;
\*   "listening"  waiting for the next message in _listen_for_messages;
\*   "handling"   a message was received with is_running set and decoded
\*                to an image that is not yet stored;
\*   "closed"     the connection is over, the finally clause is next;
\*   "failed"     websockets.connect raised and _handle_connection_error
\*                has run, the finally clause is next;
\*   "ended"      the thread has returned.
\* Once every thread has ended the list is empty again.
WsStep(w) ==
    /\ ws' = w
    /\ UNCHANGED <<mgr, session, guides, shots, timer_left, disk, ui, pipeline, hist>>

disconnect(s) ==
    [s EXCEPT !.is_running = FALSE,
              !.is_connected_flag = FALSE,
              !.current_image = FALSE,
              !.websocket = FALSE]

\* connect() with a URL set: the new thread is started and not waited for,
\* and no thread started before is joined.
connect(s) ==
    LET s1 == IF s.is_running THEN disconnect(s) ELSE s
    IN [s1 EXCEPT !.is_running = TRUE, !.reconnect_attempts = 0,
                  !.current_url_index = 0, !.loops = Append(@, "loop")]

\* Thread i returns.
Ended(s, i) ==
    LET l == [s.loops EXCEPT ![i] = "ended"]
    IN [s EXCEPT !.loops = IF \A k \in 1 .. Len(l) : l[k] = "ended" THEN <<>> ELSE l]

\* `while self.is_running:` and the start of websockets.connect.
loop_test(s, i) ==
    IF s.is_running THEN [s EXCEPT !.loops[i] = "connecting"] ELSE Ended(s, i)

\* websockets.connect returned a connection: lines 153-158, up to the wait
\* for the first message; connected is emitted.
connected(s, i) ==
    [s EXCEPT !.websocket = TRUE, !.is_connected_flag = TRUE,
              !.reconnect_attempts = 0, !.loops[i] = "listening"]

\* _handle_connection_error that counts every failure as a round.
handle_error_counting_each(s) ==
    IF s.current_url_index + 1 >= url_variants
    THEN [s EXCEPT !.current_url_index = 0, !.reconnect_attempts = @ + 1]
    ELSE [s EXCEPT !.current_url_index = @ + 1, !.reconnect_attempts = @ + 1]

\* _handle_connection_error: the next variant; after the last one the first
\* again, and one more in reconnect_attempts.
handle_connection_error(s) ==
    IF s.current_url_index + 1 >= url_variants
    THEN [s EXCEPT !.current_url_index = 0, !.reconnect_attempts = @ + 1]
    ELSE [s EXCEPT !.current_url_index = @ + 1]

\* websockets.connect raised: `except Exception`.
refused(s, i) == [handle_connection_error(s) EXCEPT !.loops[i] = "failed"]

\* A message arrives: `if not self.is_running: break`, else it is decoded;
\* a message that does not decode to a plausible image is skipped.
message(s, i, decodable) ==
    IF ~s.is_running THEN [s EXCEPT !.loops[i] = "closed"]
    ELSE IF decodable THEN [s EXCEPT !.loops[i] = "handling"]
    ELSE s

\* self.current_image = image; image_received is emitted.
store(s, i) == [s EXCEPT !.current_image = TRUE, !.loops[i] = "listening"]

\* The connection ends while the thread listens.
link_down(s, i) == [s EXCEPT !.loops[i] = "closed"]

\* A finally clause that leaves is_connected_flag and websocket as they are.
finally_keeping_flags(s, i, broke) ==
    IF broke \/ ~s.is_running THEN Ended(s, i)
    ELSE [s EXCEPT !.loops[i] = "loop"]

\* The finally clause and what follows it: the loop goes on if is_running
\* is set, unless it was left by `break` (broke: ConnectionClosed was
\* raised to _connection_loop when the `async with` block was left).
finally(s, i, broke) ==
    LET s1 == [s EXCEPT !.is_connected_flag = FALSE, !.websocket = FALSE]
    IN IF broke \/ ~s.is_running THEN Ended(s1, i)
       ELSE [s1 EXCEPT !.loops[i] = "loop"]

LoopsAt(pc) == {i \in 1 .. Len(ws.loops) : ws.loops[i] = pc}

\* --- The frame source in Spec: a connection thread runs from one wait to
\* the next without the main thread in between, and the threads end with
\* disconnect(). NetSpec below has every interleaving.

\* connect(), from the connect button (enabled while not running)
Connect ==
    /\ ui.modal = <<>>
    /\ ~ws.is_running
    /\ ws.loops = <<>>
    /\ WsStep(loop_test(connect(ws), 1))
    /\ UNCHANGED queued

\* disconnect(), from the disconnect button
Disconnect ==
    /\ ui.modal = <<>>
    /\ ws.is_running
    /\ WsStep([disconnect(ws) EXCEPT !.loops = <<>>])
    /\ UNCHANGED queued

\* _connection_loop: websockets.connect succeeded; the loop now listens on it
Handshake ==
    /\ ws.is_running
    /\ \E i \in LoopsAt("connecting") : WsStep(connected(ws, i))
    /\ UNCHANGED queued

\* _listen_for_messages: a message that decodes to a plausible image
Frame ==
    /\ ws.is_running
    /\ queued < MaxQueued
    /\ \E i \in LoopsAt("listening") : WsStep(store(message(ws, i, TRUE), i))
    /\ queued' = queued + 1

\* the connection ends: the finally clause of _connection_loop, and the
\* next attempt begins
Drop ==
    /\ ws.is_running
    /\ \E i \in LoopsAt("listening") :
          WsStep(loop_test(finally(link_down(ws, i), i, FALSE), i))
    /\ UNCHANGED queued

\* ------------------------------------------------------------------ Next
Next ==
    \/ StartRecording
    \/ StopRecording
    \/ PackageBoxClosed
    \/ CompletedBoxClosed
    \/ OnImageReceived
    \/ CaptureTick
    \/ DurationTimeout
    \/ SingleShot
    \/ GuideStep
    \/ FinishedDelivered
    \/ Tick
    \/ Connect
    \/ Disconnect
    \/ Handshake
    \/ Frame
    \/ Drop

Spec == Init /\ [][Next]_vars

\* A timer, a delay or a prompt is under way.
Timed == mgr.stage_duration_timer \/ shots # <<>> \/ guides # <<>>

\* Time does not stand still: frames do not arrive without end within one
\* tick while something timed is under way.
TimeGoesOn == []<>(~Timed) \/ []<><<Tick>>_vars

\* Time goes on whenever nothing is due, the event loop serves its queue and
\* its timers, and a VoiceGuide thread runs to its end.
LiveSpec ==
    /\ Spec
    /\ SF_vars(Tick)
    /\ TimeGoesOn
    /\ WF_vars(OnImageReceived)
    /\ WF_vars(GuideStep)
    /\ WF_vars(FinishedDelivered)
    /\ WF_vars(DurationTimeout)
    /\ WF_vars(SingleShot)

\* ------------------------------------------------------- the stage plan
\* The recorder of Spec keeps the plan of get_default_stages. PlanSpec is
\* the orchestrator given other plans through set_recording_stages and
\* then started: each stage of a plan is the default stage, or the default
\* stage without one of its fields, or with a duration, an interval or a
\* list of messages of 0.
StageKinds ==
    {DefaultStage}
    \cup {[f \in (DOMAIN DefaultStage) \ {g} |-> DefaultStage[f]] :
             g \in DOMAIN DefaultStage}
    \cup {[DefaultStage EXCEPT ![f] = 0] :
             f \in {"duration_seconds", "interval_ms", "voice_messages"}}

Plans == [1 .. NumStages -> StageKinds]

\* set_recording_stages(stages), called on an orchestrator that is not in
\* a run.
SetRecordingStages ==
    /\ ~mgr.is_multi_stage_active
    /\ guides = <<>>
    /\ \E stages \in Plans : Commit(set_recording_stages(World, stages))
    /\ UNCHANGED queued

PlanNext ==
    \/ SetRecordingStages
    \/ Connect
    \/ Handshake
    \/ StartRecording

PlanSpec == Init /\ [][PlanNext]_vars

\* ------------------------------------------------ a long capture interval
\* CaptureTick of Spec lets the capture timer time out at any moment of a
\* recording stage. RateSpec is the recorder with a plan whose capture
\* interval is longer than its stages (1 s stages, 2000 ms interval): the
\* capture timer, started with the duration timer and stopped when that one
\* fires, never times out, and every capture is one that
\* on_image_received makes for a frame that arrived.
SlowStage ==
    [DefaultStage EXCEPT !["duration_seconds"] = 1, !["interval_ms"] = 2000]

SlowPlan == [i \in 1 .. NumStages |-> SlowStage]

RateInit ==
    /\ mgr = [NewManager EXCEPT !.recording_stages = SlowPlan]
    /\ InitWindow

RateNext ==
    \/ StartRecording
    \/ StopRecording
    \/ PackageBoxClosed
    \/ CompletedBoxClosed
    \/ OnImageReceived
    \/ DurationTimeout
    \/ SingleShot
    \/ GuideStep
    \/ FinishedDelivered
    \/ Tick
    \/ Connect
    \/ Disconnect
    \/ Handshake
    \/ Frame
    \/ Drop

RateSpec == RateInit /\ [][RateNext]_vars

\* ----------------------------------------------------------- a single run
\* OneRunSpec is the recorder in a sitting of one run: start is clicked
\* with the frame source connected once; everything else is as in Spec.
FirstStart == hist.clicks = 0 /\ StartRecording

OneRunNext ==
    \/ FirstStart
    \/ StopRecording
    \/ PackageBoxClosed
    \/ CompletedBoxClosed
    \/ OnImageReceived
    \/ CaptureTick
    \/ DurationTimeout
    \/ SingleShot
    \/ GuideStep
    \/ FinishedDelivered
    \/ Tick
    \/ Connect
    \/ Disconnect
    \/ Handshake
    \/ Frame
    \/ Drop

OneRunSpec ==
    /\ Init /\ [][OneRunNext]_vars
    /\ SF_vars(Tick)
    /\ TimeGoesOn
    /\ WF_vars(OnImageReceived)
    /\ WF_vars(GuideStep)
    /\ WF_vars(FinishedDelivered)
    /\ WF_vars(DurationTimeout)
    /\ WF_vars(SingleShot)

\* ------------------------------------------------- missing stage folders
\* FolderSpec is the sitting of one run in which os.makedirs fails for some
\* of the stage sub-folders (a name the file system does not take, a quota,
\* a path that is too long): _create_stage_folders logs the failure and
\* goes on. The run is not stopped.
StartWithFoldersMissing ==
    /\ ui.modal = <<>>
    /\ ui.start_recording_btn
    /\ hist.clicks = 0
    /\ \E fails \in SUBSET Stages :
         LET w1 == start_multi_stage_recording(World, TRUE, "ok", FALSE, fails)
             w2 == IF is_connected(World)
                   THEN [w1 EXCEPT !.hist.clicks = @ + 1]
                   ELSE w1
             w3 == IF w2.ret = "True"
                   THEN started([w2 EXCEPT !.hist.run = "live",
                                           !.hist.completes = 0])
                   ELSE w2
         IN Commit(w3)
    /\ UNCHANGED queued

FolderNext ==
    \/ StartWithFoldersMissing
    \/ PackageBoxClosed
    \/ CompletedBoxClosed
    \/ OnImageReceived
    \/ CaptureTick
    \/ DurationTimeout
    \/ SingleShot
    \/ GuideStep
    \/ FinishedDelivered
    \/ Tick
    \/ Connect
    \/ Disconnect
    \/ Handshake
    \/ Frame
    \/ Drop

FolderSpec == Init /\ [][FolderNext]_vars

\* ------------------------------------------------------ a plan of no stages
\* EmptyPlanSpec is the recorder whose orchestrator was given a plan of no
\* stages (set_recording_stages([])) before its first run. No stage is ever
\* started, so no prompt sequencer and no timer of the orchestrator exists.
EmptyPlanInit ==
    /\ mgr = set_recording_stages([mgr |-> NewManager], <<>>).mgr
    /\ InitWindow

EmptyPlanNext ==
    \/ StartRecording
    \/ StopRecording
    \/ PackageBoxClosed
    \/ CompletedBoxClosed
    \/ OnImageReceived
    \/ Connect
    \/ Disconnect
    \/ Handshake
    \/ Frame
    \/ Drop

EmptyPlanSpec == EmptyPlanInit /\ [][EmptyPlanNext]_vars

\* ------------------------------------------------ the connection threads
\* NetSpec is the WebSocketManager with the window's connect and disconnect
\* buttons and its connection threads, one step of one thread at a time;
\* no run is started. At most MaxLoops threads are alive at once.
NetConnect ==
    /\ ui.modal = <<>>
    /\ ~ws.is_running
    /\ Len(ws.loops) < MaxLoops
    /\ WsStep(connect(ws))
    /\ UNCHANGED queued

NetDisconnect ==
    /\ ui.modal = <<>>
    /\ ws.is_running
    /\ WsStep(disconnect(ws))
    /\ UNCHANGED queued

Attempt(i) ==
    /\ i \in LoopsAt("loop")
    /\ ws.is_running
    /\ WsStep(loop_test(ws, i))
    /\ UNCHANGED queued

Return(i) ==
    /\ i \in LoopsAt("loop")
    /\ ~ws.is_running
    /\ WsStep(loop_test(ws, i))
    /\ UNCHANGED queued

LoopTest == \E i \in 1 .. Len(ws.loops) : Attempt(i) \/ Return(i)

Opened(i) ==
    /\ i \in LoopsAt("connecting")
    /\ WsStep(connected(ws, i))
    /\ UNCHANGED queued

Connected == \E i \in 1 .. Len(ws.loops) : Opened(i)

Refused ==
    /\ ws.reconnect_attempts < MaxRetries
    /\ \E i \in LoopsAt("connecting") : WsStep(refused(ws, i))
    /\ UNCHANGED queued

Message ==
    /\ \E i \in LoopsAt("listening"), decodable \in BOOLEAN :
          WsStep(message(ws, i, decodable))
    /\ UNCHANGED queued

Published(i) ==
    /\ i \in LoopsAt("handling")
    /\ queued < MaxQueued
    /\ WsStep(store(ws, i))
    /\ queued' = queued + 1

Store == \E i \in 1 .. Len(ws.loops) : Published(i)

LinkDown ==
    /\ \E i \in LoopsAt("listening") : WsStep(link_down(ws, i))
    /\ UNCHANGED queued

Finally ==
    /\ \E i \in LoopsAt("closed") \cup LoopsAt("failed"), broke \in BOOLEAN :
          /\ broke => ws.loops[i] = "closed"
          /\ WsStep(finally(ws, i, broke))
    /\ UNCHANGED queued

NetNext ==
    \/ NetConnect
    \/ NetDisconnect
    \/ LoopTest
    \/ Connected
    \/ Refused
    \/ Message
    \/ Store
    \/ LinkDown
    \/ Finally
    \/ OnImageReceived

NetSpec == Init /\ [][NetNext]_vars

\* ------------------------------------------------- the address variants
\* UrlSpec is the WebSocketManager with its list of address variants and
\* with what the connection threads do with current_url_index statement by
\* statement. Here the manager has two more fields: url_variants, the
\* length of the list (0 before the first set_url), and all_urls_failed,
\* set once a thread has emitted the error of line 140. The threads have
\* one more point, "advanced": websockets.connect raised and line 193 of
\* _handle_connection_error has run, its test of the index is next.

\* set_url with a URL that is not empty: ws:// and wss://, and for a URL
\* without a port the same with the ports 8080 and 3000.
set_url(s, has_port) == [s EXCEPT !.url_variants = IF has_port THEN 2 ELSE 6]

\* _get_current_url
get_current_url(s) ==
    IF s.url_variants = 0 THEN "url"
    ELSE IF s.current_url_index < s.url_variants THEN "variant"
    ELSE "None"

\* `while self.is_running:` down to websockets.connect, lines 136-145.
try_current_url(s, i) ==
    IF ~s.is_running THEN Ended(s, i)
    ELSE IF get_current_url(s) = "None"
    THEN [Ended(s, i) EXCEPT !.all_urls_failed = TRUE]
    ELSE [s EXCEPT !.loops[i] = "connecting"]

\* _handle_connection_error, line 193
advance(s, i) == [s EXCEPT !.current_url_index = @ + 1, !.loops[i] = "advanced"]

\* _handle_connection_error, lines 194-196
wrap(s, i) ==
    IF s.current_url_index >= s.url_variants
    THEN [s EXCEPT !.current_url_index = 0, !.reconnect_attempts = @ + 1,
                   !.loops[i] = "failed"]
    ELSE [s EXCEPT !.loops[i] = "failed"]

\* connect_device, from the connect button (enabled while not running)
ConnectDevice ==
    /\ ui.modal = <<>>
    /\ ~ws.is_running
    /\ Len(ws.loops) < MaxLoops
    /\ \E has_port \in BOOLEAN : WsStep(connect(set_url(ws, has_port)))
    /\ UNCHANGED queued

TryCurrentUrl ==
    /\ \E i \in LoopsAt("loop") : WsStep(try_current_url(ws, i))
    /\ UNCHANGED queued

Advance ==
    /\ ws.reconnect_attempts < MaxRetries
    /\ \E i \in LoopsAt("connecting") : WsStep(advance(ws, i))
    /\ UNCHANGED queued

Wrap ==
    /\ \E i \in LoopsAt("advanced") : WsStep(wrap(ws, i))
    /\ UNCHANGED queued

UrlInit ==
    /\ mgr = NewManager
    /\ session = NoSession
    /\ guides = <<>>
    /\ shots = <<>>
    /\ timer_left = 0
    /\ disk = NoDir
    /\ ws = [is_running |-> FALSE, is_connected_flag |-> FALSE, websocket |-> FALSE,
             current_image |-> FALSE, current_url_index |-> 0,
             reconnect_attempts |-> 0, loops |-> <<>>,
             url_variants |-> 0, all_urls_failed |-> FALSE]
    /\ queued = 0
    /\ ui = [start_recording_btn |-> TRUE, stop_record_btn |-> FALSE, modal |-> <<>>]
    /\ pipeline = "None"
    /\ hist = [clicks |-> 0, frames |-> 0,
               saved |-> [k \in 0 .. NumStages |-> 0],
               phase |-> "idle", run |-> "none", completes |-> 0,
               notes |-> <<>>]

UrlNext ==
    \/ ConnectDevice
    \/ NetDisconnect
    \/ TryCurrentUrl
    \/ Connected
    \/ Advance
    \/ Wrap
    \/ LinkDown
    \/ Finally

UrlSpec == UrlInit /\ [][UrlNext]_vars

\* ------------------------------------------------- the messages of a link
\* One connection in detail: what _listen_for_messages does with each
\* message. Here the manager's current_image is <<>> (None) or <<image>>,
\* an image is its content (id) and its shape, and the manager carries two
\* histories: received, the messages taken from the connection, and
\* emitted, the images image_received was emitted with.
MaxMessages == 3
MaxPayloads == 2
max_dimension == 10000

\* What a device can send: a binary message (the bytes of a JPEG file of an
\* image, bytes that are no image file, or no bytes at all) or a text
\* message (no JSON, JSON that is no object, or an object with the key
\* image, with the key status or with neither; the value of image is the
\* base64 text of some bytes or no base64 text).
Messages ==
    LET Dims == {max_dimension - 1, max_dimension}
        NoImage == [id |-> 0, height |-> 0, width |-> 0]
        NoBytes == [fmt |-> "empty", image |-> NoImage]
        Bytes == {[fmt |-> "jpeg", image |-> p] :
                     p \in [id : 1 .. MaxPayloads, height : Dims, width : Dims]}
                 \cup {[fmt |-> "junk", image |-> NoImage], NoBytes}
        NoBase64 == [valid |-> FALSE, bytes |-> NoBytes]
        Base64 == {[valid |-> TRUE, bytes |-> b] : b \in Bytes} \cup {NoBase64}
        NoText == [syntax |-> "invalid", key |-> "none", image |-> NoBase64]
        Text == {[syntax |-> "object", key |-> "image", image |-> t] : t \in Base64}
                \cup {[syntax |-> "object", key |-> k, image |-> NoBase64] :
                         k \in {"status", "none"}}
                \cup {[syntax |-> "number", key |-> "none", image |-> NoBase64], NoText}
    IN {[type |-> "bytes", bytes |-> b, text |-> NoText] : b \in Bytes}
       \cup {[type |-> "text", bytes |-> NoBytes, text |-> t] : t \in Text}

\* cv2.imdecode(np.frombuffer(data, np.uint8), cv2.IMREAD_COLOR): the image
\* of an image file, None for other bytes; an empty buffer raises.
imdecode(data) ==
    [raised |-> data.fmt = "empty",
     image |-> IF data.fmt = "jpeg" THEN <<data.image>> ELSE <<>>]

\* _handle_binary_message without the test of the shape.
binary_message_of_any_shape(s, msg) ==
    IF msg.type # "bytes" THEN s
    ELSE LET image == imdecode(msg.bytes)
         IN IF image.raised \/ image.image = <<>> THEN s
            ELSE [s EXCEPT !.current_image = image.image,
                           !.image_count = @ + 1,
                           !.emitted = Append(@, image.image[1])]

\* _handle_binary_message: only bytes are decoded; every exception is
\* caught and logged.
handle_binary_message(s, msg) ==
    IF msg.type # "bytes" THEN s
    ELSE LET image == imdecode(msg.bytes)
         IN IF image.raised \/ image.image = <<>> THEN s
            ELSE LET height == image.image[1].height
                     width == image.image[1].width
                 IN IF /\ height > 0 /\ width > 0
                       /\ height < max_dimension /\ width < max_dimension
                    THEN [s EXCEPT !.current_image = image.image,
                                   !.image_count = @ + 1,
                                   !.emitted = Append(@, image.image[1])]
                    ELSE s

\* _decode_base64_image: base64.b64decode raises on text that is no
\* base64; every exception is caught and logged.
decode_base64_image(s, base64_data) ==
    IF ~base64_data.valid THEN s
    ELSE LET image == imdecode(base64_data.bytes)
         IN IF image.raised \/ image.image = <<>> THEN s
            ELSE LET height == image.image[1].height
                     width == image.image[1].width
                 IN IF /\ height > 0 /\ width > 0
                       /\ height < max_dimension /\ width < max_dimension
                    THEN [s EXCEPT !.current_image = image.image,
                                   !.image_count = @ + 1,
                                   !.emitted = Append(@, image.image[1])]
                    ELSE s

\* _handle_json_message: `'image' in data` raises TypeError on a number,
\* which _listen_for_messages catches and logs; a status only goes to the
\* status line.
handle_json_message(s, data) ==
    IF data.syntax # "object" THEN s
    ELSE IF data.key = "image" THEN decode_base64_image(s, data.image)
    ELSE s

\* One turn of `async for message in self.websocket` in thread i: text that
\* json.loads rejects is handed to _handle_binary_message.
listen_for_messages(s, i, msg) ==
    IF ~s.is_running THEN [s EXCEPT !.loops[i] = "closed"]
    ELSE LET s1 == [s EXCEPT !.received = Append(@, msg)]
         IN IF msg.type = "bytes" \/ msg.text.syntax = "invalid"
            THEN handle_binary_message(s1, msg)
            ELSE handle_json_message(s1, msg.text)

Receive ==
    /\ Len(ws.received) < MaxMessages
    /\ \E i \in LoopsAt("listening"), msg \in Messages :
          WsStep(listen_for_messages(ws, i, msg))
    /\ UNCHANGED queued

\* WebSocketManager.__init__, in the window of Init
ListenInit ==
    /\ mgr = NewManager
    /\ session = NoSession
    /\ guides = <<>>
    /\ shots = <<>>
    /\ timer_left = 0
    /\ disk = NoDir
    /\ ws = [is_running |-> FALSE, is_connected_flag |-> FALSE, websocket |-> FALSE,
             current_image |-> <<>>, image_count |-> 0, current_url_index |-> 0,
             reconnect_attempts |-> 0, loops |-> <<>>,
             received |-> <<>>, emitted |-> <<>>]
    /\ queued = 0
    /\ ui = [start_recording_btn |-> TRUE, stop_record_btn |-> FALSE, modal |-> <<>>]
    /\ pipeline = "None"
    /\ hist = [clicks |-> 0, frames |-> 0,
               saved |-> [k \in 0 .. NumStages |-> 0],
               phase |-> "idle", run |-> "none", completes |-> 0,
               notes |-> <<>>]

ListenNext ==
    \/ Connect
    \/ Handshake
    \/ Receive

ListenSpec == ListenInit /\ [][ListenNext]_vars

\* ------------------------------------------------ VoiceGuide.run in detail
\* One VoiceGuide thread statement by statement. The guide is at a place
\* of run: pc is "start", "test" (before `if self.should_stop`), "emit"
\* (the test was passed, the emits that follow are due) or "returned";
\* part is the loop it is in and k the index of the message or the number
\* of the countdown. emitted is the history of what it emitted, as
\* <<signal, text, number>>.
MaxList == 2
MaxCountdown == 2

\* VoiceGuide.__init__, and start()
VoiceGuide(messages, seconds) ==
    [messages |-> messages, countdown_seconds |-> seconds, should_stop |-> FALSE,
     pc |-> "start", part |-> "messages", k |-> 1, emitted |-> <<>>]

\* run with `for message in self.messages[:-1]`.
run_short_of_a_message(g) ==
    LET At(part, k) ==
            IF part = "messages" /\ k < Len(g.messages)
            THEN [g EXCEPT !.pc = "test", !.part = "messages", !.k = k]
            ELSE IF part # "last" /\ k >= 1 /\ g.countdown_seconds > 0
            THEN [g EXCEPT !.pc = "test", !.part = "countdown",
                           !.k = IF part = "messages" THEN g.countdown_seconds ELSE k]
            ELSE [g EXCEPT !.pc = "test", !.part = "last", !.k = 0]
        Emit(h, n) == [h EXCEPT !.emitted = @ \o n]
    IN CASE g.pc = "start" -> At("messages", 1)
         [] g.pc = "test" ->
              IF g.should_stop THEN [g EXCEPT !.pc = "returned"]
              ELSE [g EXCEPT !.pc = "emit"]
         [] g.pc = "emit" /\ g.part = "messages" ->
              Emit(At("messages", g.k + 1),
                   <<<<"message_changed", g.messages[g.k], 0>>>>)
         [] g.pc = "emit" /\ g.part = "countdown" ->
              Emit(IF g.k > 1 THEN At("countdown", g.k - 1) ELSE At("last", 0),
                   <<<<"countdown_changed", "", g.k>>,
                     <<"message_changed", "get ready", g.k>>>>)
         [] g.pc = "emit" /\ g.part = "last" ->
              Emit([g EXCEPT !.pc = "returned"],
                   <<<<"message_changed", "recording", 0>>, <<"finished", "", 0>>>>)
         [] OTHER -> g

\* One statement of run: the thread reaches its first test, a test of
\* should_stop, or the emits (and the sleep) after a test that was passed.
run(g) ==
    LET At(part, k) ==
            IF part = "messages" /\ k <= Len(g.messages)
            THEN [g EXCEPT !.pc = "test", !.part = "messages", !.k = k]
            ELSE IF part # "last" /\ k >= 1 /\ g.countdown_seconds > 0
            THEN [g EXCEPT !.pc = "test", !.part = "countdown",
                           !.k = IF part = "messages" THEN g.countdown_seconds ELSE k]
            ELSE [g EXCEPT !.pc = "test", !.part = "last", !.k = 0]
        Emit(h, n) == [h EXCEPT !.emitted = @ \o n]
    IN CASE g.pc = "start" -> At("messages", 1)
         [] g.pc = "test" ->
              IF g.should_stop THEN [g EXCEPT !.pc = "returned"]
              ELSE [g EXCEPT !.pc = "emit"]
         [] g.pc = "emit" /\ g.part = "messages" ->
              Emit(At("messages", g.k + 1),
                   <<<<"message_changed", g.messages[g.k], 0>>>>)
         [] g.pc = "emit" /\ g.part = "countdown" ->
              Emit(IF g.k > 1 THEN At("countdown", g.k - 1) ELSE At("last", 0),
                   <<<<"countdown_changed", "", g.k>>,
                     <<"message_changed", "get ready", g.k>>>>)
         [] g.pc = "emit" /\ g.part = "last" ->
              Emit([g EXCEPT !.pc = "returned"],
                   <<<<"message_changed", "recording", 0>>, <<"finished", "", 0>>>>)
         [] OTHER -> g

\* VoiceGuide.stop
stop(g) == [g EXCEPT !.should_stop = TRUE]

Run ==
    /\ \E i \in 1 .. Len(guides) :
          /\ guides[i].pc # "returned"
          /\ guides' = [guides EXCEPT ![i] = run(@)]
    /\ UNCHANGED <<mgr, session, shots, timer_left, disk, ws, queued, ui, pipeline, hist>>

\* stop() from the main thread, at any place of run
Stop ==
    /\ \E i \in 1 .. Len(guides) :
          /\ ~guides[i].should_stop
          /\ guides' = [guides EXCEPT ![i] = stop(@)]
    /\ UNCHANGED <<mgr, session, shots, timer_left, disk, ws, queued, ui, pipeline, hist>>

\* A guide with any list of up to MaxList messages and any countdown up to
\* MaxCountdown seconds is made and started.
VoiceInit ==
    /\ mgr = NewManager
    /\ session = NoSession
    /\ shots = <<>>
    /\ timer_left = 0
    /\ disk = NoDir
    /\ ws = [is_running |-> FALSE, is_connected_flag |-> FALSE, websocket |-> FALSE,
             current_image |-> FALSE, current_url_index |-> 0,
             reconnect_attempts |-> 0, loops |-> <<>>]
    /\ queued = 0
    /\ ui = [start_recording_btn |-> TRUE, stop_record_btn |-> FALSE, modal |-> <<>>]
    /\ pipeline = "None"
    /\ hist = [clicks |-> 0, frames |-> 0,
               saved |-> [k \in 0 .. NumStages |-> 0],
               phase |-> "idle", run |-> "none", completes |-> 0,
               notes |-> <<>>]
    /\ \E n \in 0 .. MaxList, seconds \in 0 .. MaxCountdown :
          \E messages \in [1 .. n -> {"look ahead", "blink"}] :
              guides = <<VoiceGuide(messages, seconds)>>

VoiceNext ==
    \/ Run
    \/ Stop

VoiceSpec == VoiceInit /\ [][VoiceNext]_vars

\* --------------------------------------------------------- ImageProcessor
\* The two pipelines as functions of their arguments. An image is its
\* shape [height, width]; what a function returns is [raised, image],
\* raised when OpenCV raises cv2.error. Angles are degrees, target_size is
\* <<width, height>>, roi_coords is <<>> (None) or <<x, y, w, h>>, and
\* scale_factor is in thousandths.

\* resize_to_target with target_size read as (height, width).
resize_transposed(image, target_size) ==
    [raised |-> image.height <= 0 \/ image.width <= 0
                \/ target_size[1] <= 0 \/ target_size[2] <= 0,
     image |-> [height |-> target_size[1], width |-> target_size[2]]]

\* cv2.resize(image, target_size): dsize is (width, height); an empty
\* image raises.
resize_to_target(image, target_size) ==
    [raised |-> image.height <= 0 \/ image.width <= 0
                \/ target_size[1] <= 0 \/ target_size[2] <= 0,
     image |-> [height |-> target_size[2], width |-> target_size[1]]]

\* rotate_image: the image itself for angle 0, else an image that holds the
\* whole rotated image: int(height * sin + width * cos) wide and
\* int(height * cos + width * sin) high, sin and cos the absolute values of
\* the rotation matrix, here in millionths. warpAffine raises on an empty
\* size.
rotate_image(image, angle) ==
    LET cos == CASE angle % 180 = 0 -> 1000000
                 [] angle % 180 = 90 -> 0
                 [] angle % 90 = 45 -> 707107
                 [] angle % 180 = 30 -> 866025
        sin == CASE angle % 180 = 0 -> 0
                 [] angle % 180 = 90 -> 1000000
                 [] angle % 90 = 45 -> 707107
                 [] angle % 180 = 30 -> 500000
        new_width == (image.height * sin + image.width * cos) \div 1000000
        new_height == (image.height * cos + image.width * sin) \div 1000000
    IN IF angle = 0 THEN [raised |-> FALSE, image |-> image]
       ELSE [raised |-> new_width <= 0 \/ new_height <= 0,
             image |-> [height |-> new_height, width |-> new_width]]

\* extract_roi: the region is moved and cut to the image, and taken out
\* unless nothing of it is left. What is returned here is the region after
\* the bounds check (roi), whether it was taken out (extracted) and the
\* image that goes on (cropped).
extract_roi(image, roi_rect) ==
    LET Min(a, b) == IF a < b THEN a ELSE b
        Max(a, b) == IF a > b THEN a ELSE b
    IN IF roi_rect = <<>>
       THEN [roi |-> <<>>, extracted |-> FALSE, cropped |-> image]
       ELSE LET x == Max(0, Min(roi_rect[1], image.width - 1))
                y == Max(0, Min(roi_rect[2], image.height - 1))
                w == Min(roi_rect[3], image.width - x)
                h == Min(roi_rect[4], image.height - y)
            IN IF w <= 0 \/ h <= 0
               THEN [roi |-> <<x, y, w, h>>, extracted |-> FALSE, cropped |-> image]
               ELSE [roi |-> <<x, y, w, h>>, extracted |-> TRUE,
                     cropped |-> [height |-> h, width |-> w]]

\* process_image_pipeline: rotate, crop, resize. The region is divided by
\* scale_factor, int() cutting towards zero, and is used only if more than
\* 10 x 10 of it lies in the image. Besides what resize_to_target returns
\* the result shows the steps before it: the image after the rotation
\* (rotated), the region after the bounds check (roi, <<>> when there was
\* no check), whether it was taken out (extracted) and the image that went
\* into the resize (cropped).
process_image_pipeline(image, rotation_angle, roi_coords, target_size, scale_factor) ==
    LET Min(a, b) == IF a < b THEN a ELSE b
        Max(a, b) == IF a > b THEN a ELSE b
        Cut(a) == IF a >= 0 THEN (a * 1000) \div scale_factor
                  ELSE 0 - (((0 - a) * 1000) \div scale_factor)
        rotated == IF rotation_angle # 0 THEN rotate_image(image, rotation_angle)
                   ELSE [raised |-> FALSE, image |-> image]
        processed_image == rotated.image
        step ==
            IF roi_coords # <<>> /\ scale_factor > 0
            THEN LET actual_x == Max(0, Min(Cut(roi_coords[1]), processed_image.width - 1))
                     actual_y == Max(0, Min(Cut(roi_coords[2]), processed_image.height - 1))
                     actual_w == Min(Cut(roi_coords[3]), processed_image.width - actual_x)
                     actual_h == Min(Cut(roi_coords[4]), processed_image.height - actual_y)
                 IN IF actual_w > 10 /\ actual_h > 10
                    THEN [roi |-> <<actual_x, actual_y, actual_w, actual_h>>,
                          extracted |-> TRUE,
                          cropped |-> [height |-> actual_h, width |-> actual_w]]
                    ELSE [roi |-> <<actual_x, actual_y, actual_w, actual_h>>,
                          extracted |-> FALSE, cropped |-> processed_image]
            ELSE [roi |-> <<>>, extracted |-> FALSE, cropped |-> processed_image]
        resized == resize_to_target(step.cropped, target_size)
    IN IF rotated.raised
       THEN [raised |-> TRUE, image |-> rotated.image, rotated |-> rotated.image,
             roi |-> <<>>, extracted |-> FALSE, cropped |-> rotated.image]
       ELSE [raised |-> resized.raised, image |-> resized.image,
             rotated |-> processed_image,
             roi |-> step.roi, extracted |-> step.extracted, cropped |-> step.cropped]

\* process_image_pipeline_wysiwyg that takes out every region of which
\* something is left after the bounds check.
pipeline_cropping_any_region(image, rotation_angle, roi_coords, target_size) ==
    LET Min(a, b) == IF a < b THEN a ELSE b
        Max(a, b) == IF a > b THEN a ELSE b
        rotated == IF rotation_angle # 0 THEN rotate_image(image, rotation_angle)
                   ELSE [raised |-> FALSE, image |-> image]
        processed_image == rotated.image
        step ==
            IF roi_coords # <<>>
            THEN LET x == Max(0, Min(roi_coords[1], processed_image.width - 1))
                     y == Max(0, Min(roi_coords[2], processed_image.height - 1))
                     w == Min(roi_coords[3], processed_image.width - x)
                     h == Min(roi_coords[4], processed_image.height - y)
                 IN IF w > 0 /\ h > 0
                    THEN [roi |-> <<x, y, w, h>>, extracted |-> TRUE,
                          cropped |-> [height |-> h, width |-> w]]
                    ELSE [roi |-> <<x, y, w, h>>, extracted |-> FALSE,
                          cropped |-> processed_image]
            ELSE [roi |-> <<>>, extracted |-> FALSE, cropped |-> processed_image]
        resized == resize_to_target(step.cropped, target_size)
    IN IF rotated.raised
       THEN [raised |-> TRUE, image |-> rotated.image, rotated |-> rotated.image,
             roi |-> <<>>, extracted |-> FALSE, cropped |-> rotated.image]
       ELSE [raised |-> resized.raised, image |-> resized.image,
             rotated |-> processed_image,
             roi |-> step.roi, extracted |-> step.extracted, cropped |-> step.cropped]

\* process_image_pipeline_wysiwyg: the same with the region taken as it is.
process_image_pipeline_wysiwyg(image, rotation_angle, roi_coords, target_size) ==
    LET Min(a, b) == IF a < b THEN a ELSE b
        Max(a, b) == IF a > b THEN a ELSE b
        rotated == IF rotation_angle # 0 THEN rotate_image(image, rotation_angle)
                   ELSE [raised |-> FALSE, image |-> image]
        processed_image == rotated.image
        step ==
            IF roi_coords # <<>>
            THEN LET x == Max(0, Min(roi_coords[1], processed_image.width - 1))
                     y == Max(0, Min(roi_coords[2], processed_image.height - 1))
                     w == Min(roi_coords[3], processed_image.width - x)
                     h == Min(roi_coords[4], processed_image.height - y)
                 IN IF w > 10 /\ h > 10
                    THEN [roi |-> <<x, y, w, h>>, extracted |-> TRUE,
                          cropped |-> [height |-> h, width |-> w]]
                    ELSE [roi |-> <<x, y, w, h>>, extracted |-> FALSE,
                          cropped |-> processed_image]
            ELSE [roi |-> <<>>, extracted |-> FALSE, cropped |-> processed_image]
        resized == resize_to_target(step.cropped, target_size)
    IN IF rotated.raised
       THEN [raised |-> TRUE, image |-> rotated.image, rotated |-> rotated.image,
             roi |-> <<>>, extracted |-> FALSE, cropped |-> rotated.image]
       ELSE [raised |-> resized.raised, image |-> resized.image,
             rotated |-> processed_image,
             roi |-> step.roi, extracted |-> step.extracted, cropped |-> step.cropped]

\* A pipeline is called with an image that is not empty, and returns.
Process ==
    /\ pipeline.result = <<>>
    /\ pipeline' =
         [pipeline EXCEPT !.result =
             <<IF pipeline.wysiwyg
               THEN process_image_pipeline_wysiwyg(
                        pipeline.image, pipeline.rotation_angle,
                        pipeline.roi_coords, pipeline.target_size)
               ELSE process_image_pipeline(
                        pipeline.image, pipeline.rotation_angle,
                        pipeline.roi_coords, pipeline.target_size,
                        pipeline.scale_factor)>>]
    /\ UNCHANGED <<mgr, session, guides, shots, timer_left, disk, ws, queued, ui, hist>>

\* The arguments of a call: a frame, the angle of the rotation slider, the
\* region selected in the preview, the target size, the scale of the
\* preview.
PipelineInit ==
    /\ mgr = NewManager
    /\ session = NoSession
    /\ guides = <<>>
    /\ shots = <<>>
    /\ timer_left = 0
    /\ disk = NoDir
    /\ ws = [is_running |-> FALSE, is_connected_flag |-> FALSE, websocket |-> FALSE,
             current_image |-> FALSE, current_url_index |-> 0,
             reconnect_attempts |-> 0, loops |-> <<>>]
    /\ queued = 0
    /\ ui = [start_recording_btn |-> TRUE, stop_record_btn |-> FALSE, modal |-> <<>>]
    /\ hist = [clicks |-> 0, frames |-> 0,
               saved |-> [k \in 0 .. NumStages |-> 0],
               phase |-> "idle", run |-> "none", completes |-> 0,
               notes |-> <<>>]
    /\ \E wysiwyg \in BOOLEAN, height \in {1, 11, 12, 480}, width \in {1, 11, 12, 480},
          rotation_angle \in {0, 30, 45, 90, 180},
          roi_coords \in {<<>>} \cup ({-3, 0, 5} \X {0, 5} \X {0, 10, 11, 600}
                                       \X {-1, 11, 600}),
          target_size \in {<<240, 240>>, <<320, 240>>},
          scale_factor \in {0, 500, 1000} :
          /\ wysiwyg => scale_factor = 1000
          /\ pipeline = [wysiwyg |-> wysiwyg,
                         image |-> [height |-> height, width |-> width],
                         rotation_angle |-> rotation_angle,
                         roi_coords |-> roi_coords,
                         target_size |-> target_size,
                         scale_factor |-> scale_factor,
                         result |-> <<>>]

PipelineNext == Process

PipelineSpec == PipelineInit /\ [][PipelineNext]_vars

\* ================================================================ claims
AllOutcomes == {"ok", "unwritable", "mkdir_fails"}

\* What start_multi_stage_recording can be called with in the current state.
StartInputs ==
    {i \in BOOLEAN \X AllOutcomes \X BOOLEAN \X {{}, Stages} :
        i[3] => session.exists /\ session.current_session_folder # "None"}

\* C1: a start that finds the frame source absent (websocket_manager is
\* None) or not connected returns False and changes nothing: the session
\* object, the folders, the timers, the prompt sequencers, the flags and the
\* stage index of the orchestrator are what they were.
C1_StartRejected ==
    \A i \in StartInputs :
        (~i[1] \/ ~is_connected(World)) =>
            LET w == start_multi_stage_recording(World, i[1], i[2], i[3], i[4])
            IN /\ w.ret = "False"
               /\ w.mgr = mgr
               /\ w.session = session
               /\ w.disk = disk
               /\ w.guides = guides
               /\ w.shots = shots

\* The start button can be pressed while the frame source is not connected
\* and an earlier session object exists.
C1_Witness ==
    /\ ui.start_recording_btn
    /\ ~is_connected(World)
    /\ session.exists
    /\ disk.exists

\* The step is made after a stop and before the next start, and is not a
\* click itself.
AfterStop == hist.run = "stopped" /\ hist.clicks' = hist.clicks

\* The three frame counters.
Counters == <<mgr.stage_recording_count,
              IF session.exists THEN session.stage_recording_count ELSE 0,
              IF session.exists THEN session.recording_count ELSE 0>>

\* C2: from the return of stop_multi_stage_recording to the next start no
\* frame is saved and none of the three frame counters changes.
C2_NoCaptureAfterStop ==
    [][AfterStop => disk.files' = disk.files /\ Counters' = Counters]_vars

\* What a handler emitted or wrote shows that the run went on.
Progress(w) ==
    \E i \in 1 .. Len(w.out) :
        w.out[i][1] \in {"stage_started", "stage_completed",
                         "all_stages_completed", "summary", "report", "archive"}

\* C3: from a stop to the next start the run does not go on: no timer or
\* sequencer callback starts a stage, emits stage_completed or
\* all_stages_completed, or writes the summary, the report or the archive.
C3_NoProgressAfterStop ==
    [][AfterStop =>
         /\ SingleShot => ~Progress(start_stage(Fired(World), mgr.current_stage + 1))
         /\ DurationTimeout => ~Progress(complete_current_stage(World))
         /\ PackageBoxClosed => ~Progress(emit_all_stages_completed(World))
         /\ \A i \in 1 .. Len(guides) :
              FinishedRun(i) =>
                 ~Progress(start_stage_recording(World, guides[i].stage))]_vars

\* C4: a frame is written to the folder of stage k only by a step taken in
\* the recording phase of stage k.
C4_SavedOnlyWhileRecording ==
    [][\A k \in Stages :
          (disk.files'[k] > disk.files[k]) =>
              hist.phase = "recording" /\ mgr.current_stage = k]_vars

\* A step of one of the two callers of the capture step.
CaptureStep == CaptureTick \/ OnImageReceived

\* C5: the session's total is the sum, over the stages the session has been
\* in, of the frames saved while it was in that stage, and the counter of
\* the stage it is in is that stage's share; the total is changed by capture
\* steps only, by one per step (a start replaces the session by a new one).
C5_TotalIsSumOfStages ==
    /\ [](session.exists =>
            /\ session.recording_count = SumTo(hist.saved, NumStages + 1)
            /\ session.current_stage <= NumStages =>
                  session.stage_recording_count = hist.saved[session.current_stage])
    /\ [][(session.exists /\ hist.clicks' = hist.clicks
            /\ session.recording_count' # session.recording_count) =>
              /\ CaptureStep
              /\ session.recording_count' = session.recording_count + 1
              /\ session.stage_recording_count' = session.stage_recording_count + 1
              /\ session.current_stage' = session.current_stage]_vars

\* Two stages of one session have a frame each.
C5_Witness ==
    /\ session.exists
    /\ hist.saved[0] > 0
    /\ hist.saved[1] > 0
    /\ session.recording_count = 2

\* C10: a capture step that finds no current frame, from the capture timer
\* or from the frame-arrival callback, returns False, saves nothing, emits
\* nothing and leaves the three frame counters as they were.
C10_NoFrameNoEffect ==
    \A i \in CaptureInputs :
        ~get_current_image(World) =>
            LET w == capture_stage_image(World, i[1], i[2], i[3])
                v == capture_current_image(World, i[1], i[2], i[3])
            IN /\ w.ret = "False" /\ v.ret = "False"
               /\ w.out = <<>> /\ v.out = <<>>
               /\ w.disk = disk /\ v.disk = disk
               /\ w.mgr = mgr /\ v.mgr = mgr
               /\ w.session = session /\ v.session = session

\* The capture timer runs in a recording stage whose folder exists, a
\* frame-arrival callback is queued, and the frame source holds no frame.
C10_Witness ==
    /\ mgr.is_multi_stage_active
    /\ mgr.is_recording
    /\ mgr.stage_timer
    /\ queued > 0
    /\ ~get_current_image(World)
    /\ session.current_stage < Len(session.stage_folders)

\* The phase the orchestrator last entered, with its stage.
At(p, k) == hist.phase = p /\ mgr.current_stage = k

\* One step in the life of a stage.
StageStep ==
    \/ hist.phase' = hist.phase /\ mgr.current_stage' = mgr.current_stage
    \/ \E k \in Stages :
         \/ At("prompting", k) /\ At("recording", k)'
         \/ At("recording", k) /\ At("completing", k)'
         \/ At("completing", k) /\ k + 1 < NumStages /\ At("prompting", k + 1)'
         \/ At("completing", k) /\ k + 1 = NumStages /\ At("idle", k)'

\* C6: a run that is not stopped takes its stages in order 0, 1, ..., each
\* once and each through prompting, recording and completing, and it
\* reaches the end of the last stage and becomes idle, frames or no frames.
C6_StagesInOrder ==
    /\ [][(hist.run = "live" /\ hist.run' # "stopped") => StageStep]_vars
    /\ (hist.run = "live") ~> (hist.run = "stopped" \/ hist.phase = "idle")

\* C7: a stage that is recording stops recording only by the firing of
\* its duration timer (or by stop); a capture step, whatever the count of
\* frames, leaves the flags, the timers and the stage as they are; and the
\* firing ends the stage and stops both timers whatever the count is.
C7_DurationEndsStage ==
    /\ [][(mgr.is_recording /\ ~mgr.is_recording') =>
              DurationTimeout \/ StopRecording]_vars
    /\ [][(mgr.is_recording /\ CaptureStep) =>
              /\ mgr.is_recording'
              /\ mgr.stage_timer' = mgr.stage_timer
              /\ mgr.stage_duration_timer' = mgr.stage_duration_timer
              /\ mgr.current_stage' = mgr.current_stage
              /\ shots' = shots]_vars
    /\ [](mgr.stage_duration_timer =>
            LET w == complete_current_stage(World)
            IN /\ ~w.mgr.is_recording
               /\ ~w.mgr.stage_timer
               /\ ~w.mgr.stage_duration_timer
               /\ w.out[1] = <<"stage_completed", mgr.current_stage + 1>>)

\* The duration timer has ended a stage of a live run that saved no frame.
C7_Witness ==
    /\ hist.run = "live"
    /\ hist.phase = "completing"
    /\ hist.saved[0] = 0 /\ hist.saved[1] = 0
    /\ session.current_stage = 1
    /\ ~mgr.is_recording /\ ~mgr.stage_timer /\ ~mgr.stage_duration_timer

C9_ReportMatchesSummary ==
    (disk.has_summary /\ disk.has_report) =>
        disk.report.total_images = SumSeq(disk.summary)

\* C11: a capture step whose write fails (the frame cannot be processed, or
\* neither way of writing the file succeeds) returns False and leaves the
\* orchestrator's stage count, the session's stage count, the session's
\* total, the files, the flags and the timers of the run as they were; a
\* capture step counts a frame only when the save returned a path, and then
\* each of the three counters is one more than before.
C11_FailedWriteCountsNothing ==
    \A i \in CaptureInputs :
        LET w == capture_stage_image(World, i[1], i[2], i[3])
            s == save_stage_image(World, i[2], i[3])
            wrote == w.ret = "True"
        IN /\ (get_current_image(World) /\ ~(i[1] /\ (i[2] \/ i[3]))) => ~wrote
           /\ wrote <=> (w.disk # disk)
           /\ wrote => /\ s.ret = "filepath"
                       /\ w.mgr.stage_recording_count = mgr.stage_recording_count + 1
                       /\ w.session.stage_recording_count
                             = session.stage_recording_count + 1
                       /\ w.session.recording_count = session.recording_count + 1
           /\ ~wrote => /\ w.mgr = mgr
                        /\ w.session = session
                        /\ w.timer_left = timer_left
                        /\ w.shots = shots
                        /\ w.guides = guides
                        /\ w.out = <<>>

\* A recording stage that has saved a frame, with a frame at hand and the
\* stage's folder in place: the next write can succeed or fail.
C11_Witness ==
    /\ mgr.is_multi_stage_active /\ mgr.is_recording /\ mgr.stage_timer
    /\ get_current_image(World)
    /\ session.exists
    /\ session.current_stage < Len(session.stage_folders)
    /\ session.stage_folders[session.current_stage + 1] \in disk.folders
    /\ mgr.stage_recording_count = 1
    /\ hist.frames < MaxFrames

\* A stage of the plan does not pass validate_stage_config.
Malformed(plan) == \E k \in 1 .. Len(plan) : ~validate_stage_config(plan[k])[1]

\* C12: a start with a plan that has a stage without a required field, or
\* with a duration or an interval that is not positive, returns False with
\* an error that names the field of the first such stage, and creates no
\* folder, starts no stage and no prompt sequencer and leaves the
\* orchestrator as it was.
C12_MalformedPlanRejected ==
    \A i \in StartInputs :
        (is_connected(World) /\ i[1] /\ Malformed(mgr.recording_stages)) =>
            LET w == start_multi_stage_recording(World, i[1], i[2], i[3], i[4])
                plan == mgr.recording_stages
                bad == CHOOSE k \in 1 .. Len(plan) :
                          /\ ~validate_stage_config(plan[k])[1]
                          /\ \A j \in 1 .. (k - 1) : validate_stage_config(plan[j])[1]
            IN /\ w.ret = "False"
               /\ \E n \in 1 .. Len(w.out) :
                     w.out[n] = <<"error", validate_stage_config(plan[bad])[2]>>
               /\ w.disk = disk
               /\ w.guides = guides
               /\ w.mgr = mgr
               /\ w.session = session

\* The orchestrator is not in a run and nothing of an earlier run is left.
AtRest ==
    /\ ~mgr.is_multi_stage_active /\ ~mgr.is_recording
    /\ ~mgr.stage_timer /\ ~mgr.stage_duration_timer
    /\ guides = <<>> /\ shots = <<>>

\* C13: a start for which the session folder or the sub-folder of a stage
\* cannot be created returns False and starts nothing: the orchestrator is
\* not active, no prompt sequencer runs and no timer is armed.
C13_NoFolderNoRun ==
    \A i \in StartInputs :
        (AtRest /\ is_connected(World) /\ i[1] /\ (i[2] # "ok" \/ i[4] # {})) =>
            LET w == start_multi_stage_recording(World, i[1], i[2], i[3], i[4])
            IN /\ w.ret = "False"
               /\ ~w.mgr.is_multi_stage_active
               /\ w.guides = <<>>
               /\ ~w.mgr.stage_timer /\ ~w.mgr.stage_duration_timer
               /\ w.shots = <<>>

\* C14: a start that returns True has made the session folder and the
\* sub-folder of each stage of the plan, n + 1 folders for n stages, and
\* the session holds the n sub-folders when the first prompt begins.
C14_FoldersBeforePrompt ==
    \A i \in StartInputs :
        LET w == start_multi_stage_recording(World, i[1], i[2], i[3], i[4])
            n == Len(mgr.recording_stages)
        IN (AtRest /\ w.ret = "True") =>
              /\ w.disk.exists
              /\ Cardinality(w.disk.folders) = n
              /\ Len(w.session.stage_folders) = n
              /\ Len(w.guides) = 1 /\ w.guides[1].stage = 0

\* C15: in a recording stage of duration D and capture interval I the
\* frames saved so far, which are the capture attempts that succeeded, are
\* at most D/I + 1, that is, I times their number is at most D + I.
C15_CapturesBoundedByInterval ==
    (mgr.is_multi_stage_active /\ mgr.is_recording) =>
        LET stage == mgr.recording_stages[mgr.current_stage + 1]
        IN mgr.stage_recording_count * stage["interval_ms"]
             <= stage["duration_seconds"] * 1000 + stage["interval_ms"]

\* The frame source is lost: disconnect() is called or the connection ends.
Lost == Disconnect \/ Drop

\* A run that no stop came before: the only click so far is its start.
FirstRun == hist.run = "live" /\ hist.clicks = 1

\* C16: losing the frame source while a stage is recording changes nothing
\* of the orchestrator, its session, its timers and its prompt sequencers;
\* a capture step that finds no frame changes nothing either; in a run that
\* no stop came before, a recording stage without a connected source ends
\* only by the firing of its duration timer when its time is up (or by
\* stop), which schedules the next stage, and it does end.
C16_DisconnectKeepsStage ==
    /\ [][(Lost /\ mgr.is_recording) =>
            UNCHANGED <<mgr, session, guides, shots, timer_left, disk, hist>>]_vars
    /\ [][(CaptureStep /\ mgr.is_recording /\ ~get_current_image(World)) =>
            UNCHANGED <<mgr, session, guides, shots, timer_left, disk>>]_vars
    /\ [][(FirstRun /\ hist.phase = "recording" /\ ~is_connected(World)
            /\ hist.clicks' = hist.clicks) =>
              /\ timer_left' <= timer_left
              /\ hist.phase' # "recording" =>
                    /\ timer_left = 0
                    /\ hist.phase' = "completing"
                    /\ ~mgr.is_recording'
                    /\ session.current_stage' = session.current_stage + 1
                    /\ shots' = Append(shots, transition_delay_ms \div tick_ms)]_vars
    /\ (FirstRun /\ hist.phase = "recording" /\ ~is_connected(World))
          ~> (hist.phase = "completing" \/ hist.run = "stopped")
    /\ (FirstRun /\ hist.phase = "completing")
          ~> (hist.phase \in {"prompting", "idle"} \/ hist.run = "stopped")

\* The first run is recording a stage whose time is up, after disconnect()
\* was called: the source is not connected and holds no frame.
C16_Witness ==
    /\ FirstRun
    /\ hist.phase = "recording" /\ mgr.is_recording
    /\ mgr.stage_duration_timer /\ timer_left = 0
    /\ ~ws.is_running
    /\ ~is_connected(World) /\ ~get_current_image(World)

\* The prompt sequencers that can still signal ready: finished is on its
\* way, or the thread has not been told to stop.
Signalling ==
    {i \in 1 .. Len(guides) : guides[i].state = "emitted" \/ ~guides[i].should_stop}

\* The capture timer or the duration timer is armed.
TimersArmed == mgr.stage_timer \/ mgr.stage_duration_timer

\* C17: at most one stage is active, that is, at most one prompt sequencer
\* can still signal ready, and none while the capture or duration timer is
\* armed; and with the orchestrator idle no sequencer can signal ready and
\* no timer is armed.
C17_OneActiveStage ==
    /\ Cardinality(Signalling) + (IF TimersArmed THEN 1 ELSE 0) <= 1
    /\ ~mgr.is_multi_stage_active => (Signalling = {} /\ ~TimersArmed)

\* The connection threads that can still attempt a connection or publish a
\* frame: a thread in websockets.connect or with a decoded frame in hand
\* goes on without a test, the others test is_running first.
ActiveLoops ==
    {i \in 1 .. Len(ws.loops) :
        \/ ws.loops[i] \in {"connecting", "handling"}
        \/ ws.loops[i] \in {"loop", "listening"} /\ ws.is_running}

\* C18: a connection thread started before the latest connect() makes no
\* further connection attempt and publishes no further frame, and at most
\* one connection thread is active at any time.
C18_ConnectStopsPriorLoop ==
    /\ [][\A i \in 1 .. (Len(ws.loops) - 1) : ~Attempt(i) /\ ~Published(i)]_vars
    /\ [](Cardinality(ActiveLoops) <= 1)

\* C19: while the manager is not connected (after disconnect(), after the
\* connection dropped, before the next connection is made) its slot for
\* the current frame is empty.
C19_NoFrameWhenNotConnected ==
    ~is_connected(World) => ~get_current_image(World)

\* C20: from disconnect() to the next connect() (is_running is not set)
\* is_connected() is false and no connection thread emits connected.
C20_NotConnectedAfterDisconnect ==
    /\ [](~ws.is_running => ~is_connected(World))
    /\ [][~ws.is_running => ~Connected]_vars

\* The connection threads that are inside `async with websockets.connect`
\* after the handshake: they hold the connection they opened and have not
\* reached the finally clause.
HoldingLoops ==
    {i \in 1 .. Len(ws.loops) : ws.loops[i] \in {"listening", "handling", "closed"}}

\* C21: whenever is_connected() is true a connection thread holds a
\* connection whose handshake has completed.
C21_ConnectedHasConnection ==
    is_connected(World) => HoldingLoops # {}

\* is_connected() is true while a second thread has ended or not yet
\* connected.
C21_Witness ==
    /\ is_connected(World)
    /\ Len(ws.loops) = 2
    /\ Cardinality(HoldingLoops) = 1

\* C22: while is_running is set a connection thread that leaves its
\* connection, or whose attempt failed, goes back to the top of the loop
\* for another attempt: it does not return.
C22_LoopGoesOnWhileRunning ==
    [][\A i \in 1 .. Len(ws.loops) :
          (/\ ws.is_running
           /\ ws.loops[i] \in {"closed", "failed"}
           /\ (Len(ws'.loops) # Len(ws.loops) \/ ws'.loops[i] # ws.loops[i]))
          => (Len(ws'.loops) = Len(ws.loops) /\ ws'.loops[i] = "loop")]_vars

\* C23: after any messages on a connection the current frame is the image
\* of the latest message that carried an image of a plausible shape (both
\* sides above 0 and below 10000), image_received was emitted once for each
\* such message, in order, and the image counter counts them; every other
\* message changed nothing, and the thread still listens.
C23_CurrentFrameIsLatestGoodPayload ==
    LET Carried(m) ==
            IF m.type = "bytes"
            THEN IF m.bytes.fmt = "jpeg" THEN <<m.bytes.image>> ELSE <<>>
            ELSE IF /\ m.text.syntax = "object" /\ m.text.key = "image"
                    /\ m.text.image.valid /\ m.text.image.bytes.fmt = "jpeg"
                 THEN <<m.text.image.bytes.image>> ELSE <<>>
        Good(m) ==
            /\ Carried(m) # <<>>
            /\ Carried(m)[1].height \in 1 .. 9999
            /\ Carried(m)[1].width \in 1 .. 9999
        good == SelectSeq(ws.received, Good)
    IN /\ ws.current_image = IF good = <<>> THEN <<>> ELSE Carried(good[Len(good)])
       /\ ws.emitted = [k \in 1 .. Len(good) |-> Carried(good[k])[1]]
       /\ ws.image_count = Len(good)
       /\ ws.received # <<>> => ws.loops = <<"listening">>

C23_Witness ==
    /\ Len(ws.received) = 3
    /\ ws.received[1].type = "bytes"
    /\ ws.received[2].type = "text"
    /\ ws.received[3].type = "bytes"
    /\ ws.received[3].bytes.fmt = "jpeg"
    /\ ws.received[3].bytes.image.height = max_dimension
    /\ ws.image_count = 2
    /\ ws.current_image # <<ws.emitted[1]>>

\* C24: a guide that is not stopped emits the messages of its list once
\* each, in the order of the list, then countdown_changed once per second
\* of the countdown with the numbers countdown_seconds down to 1, then
\* finished, once; finished is the last thing it emits.
C24_PromptsThenCountdownThenReady ==
    \A i \in 1 .. Len(guides) :
        LET g == guides[i]
            listed == [k \in 1 .. Len(g.messages) |->
                          <<"message_changed", g.messages[k], 0>>]
            counted == [k \in 1 .. g.countdown_seconds |->
                          <<"countdown_changed", "", g.countdown_seconds + 1 - k>>]
            expected == listed \o counted \o << <<"finished", "", 0>> >>
            Told(n) ==
                \/ n[1] # "message_changed"
                \/ \E k \in 1 .. Len(g.messages) : n[2] = g.messages[k]
            told == SelectSeq(g.emitted, Told)
        IN ~g.should_stop =>
              /\ Len(told) <= Len(expected)
              /\ told = SubSeq(expected, 1, Len(told))
              /\ g.pc = "returned" => told = expected
              /\ \A k \in 1 .. Len(g.emitted) - 1 : g.emitted[k][1] # "finished"

C24_Witness ==
    /\ Len(guides) = 1
    /\ ~guides[1].should_stop
    /\ guides[1].pc = "returned"
    /\ guides[1].countdown_seconds = 2
    /\ Len(guides[1].messages) = 2
    /\ guides[1].messages[1] # guides[1].messages[2]
    /\ Len(guides[1].emitted) = 8

\* C25: once stop() has returned the guide emits nothing more: no message,
\* no countdown and no finished.
C25_StoppedGuideEmitsNothing ==
    [][\A i \in 1 .. Len(guides) :
          guides[i].should_stop => guides'[i].emitted = guides[i].emitted]_vars

C27_SessionFolderIsItsOwn ==
    (session.exists /\ session.current_session_folder # "None") =>
        \A k \in DOMAIN disk.files : disk.files[k] = hist.saved[k]

\* C28: a stage that has lost its frame source is aborted: in a run that
\* no stop came before, the duration timer of a recording stage does not
\* bring the stage to its normal end while the source is not connected.
C28_DisconnectAbortsStage ==
    [][(FirstRun /\ mgr.is_recording /\ ~is_connected(World)) => ~DurationTimeout]_vars

C30_SaveFailsOnlyAfterBothPaths ==
    (/\ session.exists
     /\ session.current_stage < Len(session.stage_folders)
     /\ session.stage_folders[session.current_stage + 1] \in disk.folders) =>
        \A primary \in BOOLEAN, secondary \in BOOLEAN :
            LET w == save_stage_image(World, primary, secondary)
                k == session.stage_folders[session.current_stage + 1]
            IN /\ w.ret = "None" <=> (~primary /\ ~secondary)
               /\ w.ret # "None" =>
                     /\ w.ret = "filepath"
                     /\ w.disk.files[k] = disk.files[k] + 1
                     /\ w.session.stage_recording_count
                           = session.stage_recording_count + 1
                     /\ w.session.recording_count = session.recording_count + 1
               /\ w.ret = "None" => w.session = session /\ w.disk = disk

\* The second stage of a session is recording, one frame saved in each
\* stage so far, and its folder is in place.
C30_Witness ==
    /\ mgr.is_recording
    /\ session.exists
    /\ session.current_stage = 1
    /\ session.current_stage < Len(session.stage_folders)
    /\ session.stage_folders[session.current_stage + 1] \in disk.folders
    /\ session.stage_recording_count = 1
    /\ session.recording_count = 2

\* C31: within one stage of one session the numbers in the names of the
\* files saved are 0, 1, 2, ... in the order of saving: a save that returns
\* a path names its file with the number of files saved before it in this
\* stage of this session and leaves the next number for the next one, a
\* save that fails leaves the number as it is, and the session's step to
\* the next stage sets it to 0, in a stage in which nothing is saved yet.
C31_NumbersCountTheStagesFiles ==
    session.exists =>
        /\ \A i \in CaptureInputs :
              LET w == save_stage_image(World, i[2], i[3])
                  before == hist.saved[session.current_stage]
              IN IF w.ret = "filepath"
                 THEN /\ Len(w.out) = 1
                      /\ w.out[1][3] = before
                      /\ w.session.stage_recording_count = before + 1
                      /\ w.session.current_stage = session.current_stage
                 ELSE w.session = session
        /\ session.current_stage < NumStages =>
              LET w == next_stage(World)
              IN /\ w.session.stage_recording_count = 0
                 /\ hist.saved[w.session.current_stage] = 0

\* The second stage of a session is recording with nothing saved in it,
\* after a first stage in which a file was saved; a frame is at hand and
\* the stage's folder is in place.
C31_Witness ==
    /\ mgr.is_recording
    /\ get_current_image(World)
    /\ session.exists
    /\ session.current_stage = 1
    /\ session.current_stage < Len(session.stage_folders)
    /\ session.stage_folders[session.current_stage + 1] \in disk.folders
    /\ hist.saved[0] = 1
    /\ hist.saved[1] = 0
    /\ hist.frames < MaxFrames

\* C32 as stated: the crop step of a pipeline cuts the requested region to
\* the rotated image, what it takes out lies inside that image, and it
\* leaves the image as it is exactly when the width or the height left
\* after the bounds check is 0 or less.
C32_CropSkippedOnlyWhenEmpty ==
    (pipeline.result # <<>> /\ pipeline.result[1].roi # <<>>) =>
        LET r == pipeline.result[1]
        IN /\ r.extracted =>
                 /\ 0 <= r.roi[1] /\ r.roi[1] + r.roi[3] <= r.rotated.width
                 /\ 0 <= r.roi[2] /\ r.roi[2] + r.roi[4] <= r.rotated.height
                 /\ r.cropped = [height |-> r.roi[4], width |-> r.roi[3]]
           /\ ~r.extracted <=> (r.roi[3] <= 0 \/ r.roi[4] <= 0)
           /\ ~r.extracted => r.cropped = r.rotated

\* C32, amended: the crop step of a pipeline checks the requested region
\* against the rotated image (process_image_pipeline only for a positive
\* scale_factor), what it takes out is not empty and lies inside that image,
\* and it leaves the image as it is exactly when the width or the height
\* left after the check is 10 or less; extract_roi, which no pipeline
\* calls, does the same with 0 in the place of 10.
C32_CropSkippedWhenTenOrLess ==
    pipeline.result # <<>> =>
        LET r == pipeline.result[1]
            e == extract_roi(r.rotated, pipeline.roi_coords)
            Inside(c) ==
                /\ 0 <= c.roi[1] /\ c.roi[3] > 0
                /\ c.roi[1] + c.roi[3] <= r.rotated.width
                /\ 0 <= c.roi[2] /\ c.roi[4] > 0
                /\ c.roi[2] + c.roi[4] <= r.rotated.height
                /\ c.cropped = [height |-> c.roi[4], width |-> c.roi[3]]
        IN /\ r.roi # <<>> <=>
                 /\ pipeline.roi_coords # <<>>
                 /\ pipeline.wysiwyg \/ pipeline.scale_factor > 0
           /\ r.extracted => r.roi # <<>> /\ Inside(r)
           /\ r.roi # <<>> => (~r.extracted <=> (r.roi[3] <= 10 \/ r.roi[4] <= 10))
           /\ ~r.extracted => r.cropped = r.rotated
           /\ e.roi # <<>> <=> pipeline.roi_coords # <<>>
           /\ e.extracted => e.roi # <<>> /\ Inside(e)
           /\ e.roi # <<>> => (~e.extracted <=> (e.roi[3] <= 0 \/ e.roi[4] <= 0))
           /\ ~e.extracted => e.cropped = r.rotated

\* A pipeline has returned for a region that reaches over the right edge
\* of the rotated image from a point left of it: ten columns of it are left
\* after the bounds check, and the image went into the resize whole.
C32_Witness ==
    /\ pipeline.result # <<>>
    /\ pipeline.rotation_angle = 90
    /\ pipeline.image = [height |-> 12, width |-> 480]
    /\ pipeline.roi_coords = <<5, 5, 600, 600>>
    /\ pipeline.result[1].rotated = [height |-> 480, width |-> 12]
    /\ pipeline.result[1].roi = <<5, 5, 7, 475>>
    /\ ~pipeline.result[1].extracted
    /\ pipeline.result[1].cropped = pipeline.result[1].rotated

\* C33: the report of a finalized session lists every image file saved in
\* the session: its file list has as many entries as its total_images.
C33_ReportListsEveryFile ==
    disk.has_report => disk.report.files = disk.report.total_images

\* C34: a frame that is saved is written into the sub-folder made for the
\* stage the orchestrator is recording: the folder that gets the file is
\* that of the orchestrator's stage index, which is the session's stage
\* index, also when a sub-folder of the session could not be made.
C34_FrameGoesToItsStagesFolder ==
    [][\A k \in Stages :
          (disk.files'[k] > disk.files[k]) =>
              /\ mgr.is_recording
              /\ mgr.current_stage = k
              /\ session.current_stage = k]_vars

\* C35: the finished signal of a prompt sequencer starts the recording of a
\* stage only when it comes from the sequencer the orchestrator holds, the
\* one the run that is under way started for the stage it is in; a signal
\* left from an earlier stage or from a run that was stopped starts none,
\* whether or not a new run was started since.
C35_OnlyTheCurrentGuideStartsRecording ==
    [][\A i \in 1 .. Len(guides) :
          (/\ FinishedRun(i)
           /\ start_stage_recording(World, guides[i].stage).out # <<>>) =>
              /\ guides[i].current
              /\ guides[i].stage = mgr.current_stage
              /\ mgr.is_multi_stage_active]_vars

\* C36: whenever the orchestrator's recording flag is set its active flag
\* is set too.
C36_RecordingOnlyWhileActive ==
    mgr.is_recording => mgr.is_multi_stage_active

\* C37: in a run that is not stopped the notifications of each stage k come
\* in the order stage_started(k), recording_started(k), stage_completed(k),
\* recording_stopped(k), each once, and all of them before the next stage
\* is started; a frame is saved, and progress_updated(k) emitted for it,
\* only after recording_started(k) and before stage_completed(k).
C37_NotificationsInOrder ==
    /\ [](hist.run = "live" =>
            \E k \in 1 .. NumStages :
                hist.notes \in
                    {<< <<"stage_started", k>> >>,
                     << <<"stage_started", k>>, <<"recording_started", k>> >>,
                     << <<"stage_started", k>>, <<"recording_started", k>>,
                        <<"stage_completed", k>> >>,
                     << <<"stage_started", k>>, <<"recording_started", k>>,
                        <<"stage_completed", k>>, <<"recording_stopped", k>> >>})
    /\ [][(/\ hist.run = "live" /\ hist.run' = "live" /\ hist.clicks' = hist.clicks
           /\ hist.notes' # hist.notes /\ Len(hist.notes') = 1) =>
             \E k \in 1 .. (NumStages - 1) :
                 /\ hist.notes = << <<"stage_started", k>>, <<"recording_started", k>>,
                                    <<"stage_completed", k>>, <<"recording_stopped", k>> >>
                 /\ hist.notes' = << <<"stage_started", k + 1>> >>]_vars
    /\ [][(/\ hist.run = "live" /\ hist.run' = "live" /\ hist.clicks' = hist.clicks
           /\ CaptureStep /\ disk.files' # disk.files) =>
             hist.notes = << <<"stage_started", mgr.current_stage + 1>>,
                             <<"recording_started", mgr.current_stage + 1>> >>]_vars

\* C38: with a list of address variants that is not empty the index of the
\* current variant is one of the list whenever no thread is in the middle
\* of _handle_connection_error, so that a connection thread always finds an
\* address to try: none ends with the error that all URLs have failed.
C38_AlwaysAnAddressToTry ==
    /\ (ws.url_variants > 0 /\ LoopsAt("advanced") = {}) =>
           ws.current_url_index \in 0 .. (ws.url_variants - 1)
    /\ ~ws.all_urls_failed


\* C39: with a plan of no stages, a start while the frame source is connected
\* and the session folder can be made returns True, makes no stage folder,
\* starts no prompt sequencer, no single-shot and no timer, never records,
\* and finalizes the session at once: the summary, the report with a total
\* of 0 frames and the archive are written and the box of the completed run
\* is open. Closing that box emits all_stages_completed, and when start
\* returns the notification has been emitted once and the orchestrator is
\* idle.
C39_EmptyPlanCompletesAtOnce ==
    /\ [](\A same \in BOOLEAN :
            (/\ ui.modal = <<>>
             /\ is_connected(World)
             /\ same => session.exists /\ session.current_session_folder # "None")
            => LET w == start_multi_stage_recording(World, TRUE, "ok", same, {})
               IN /\ w.ret = "True"
                  /\ w.session.current_session_folder = "folder"
                  /\ w.session.stage_folders = <<>>
                  /\ w.disk.exists /\ w.disk.folders = {}
                  /\ w.guides = guides /\ w.shots = shots
                  /\ w.mgr.voice_guide = "None"
                  /\ ~w.mgr.is_multi_stage_active /\ ~w.mgr.is_recording
                  /\ ~w.mgr.stage_timer /\ ~w.mgr.stage_duration_timer
                  /\ \A i \in 1 .. Len(w.out) :
                        w.out[i][1] \notin {"stage_started", "recording_started",
                                            "all_stages_completed"}
                  /\ w.disk.has_summary /\ w.disk.has_report /\ w.disk.zip
                  /\ w.disk.report.total_images = 0
                  /\ w.session.recording_count = 0
                  /\ \A k \in Stages : w.disk.files[k] = 0
                  /\ w.ui.modal = <<"package">>
                  /\ LET e == emit_all_stages_completed(Closed(w))
                     IN /\ e.out[Len(e.out)] =
                              <<"all_stages_completed",
                                [active |-> FALSE, recording |-> FALSE,
                                 stage_timer |-> FALSE, duration_timer |-> FALSE]>>
                        /\ e.mgr = w.mgr /\ e.disk = w.disk)
    /\ [][(/\ ui.modal # <<>> /\ Head(ui.modal) = "start"
           /\ (ui'.modal = <<>> \/ Head(ui'.modal) # "start"))
          => /\ hist'.completes = 1
             /\ ~mgr'.is_multi_stage_active /\ ~mgr'.is_recording
             /\ ~mgr'.stage_timer /\ ~mgr'.stage_duration_timer
             /\ mgr'.voice_guide = "None"
             /\ guides' = <<>> /\ shots' = <<>>
             /\ disk'.zip /\ disk'.report.total_images = 0]_vars
    /\ [](mgr.recording_stages = <<>> /\ hist.phase = "idle" /\ ~mgr.is_recording)

\* Start has returned from a run over a plan of no stages.
C39_Witness ==
    /\ mgr.recording_stages = <<>>
    /\ ui.modal = <<>>
    /\ hist.run = "done" /\ hist.completes = 1
    /\ ui.stop_record_btn
    /\ disk.zip /\ disk.has_report /\ disk.report.total_images = 0
    /\ ~mgr.is_multi_stage_active


\* C40: the capture timer and the stage-duration timer run exactly while
\* is_recording is set. Starting the recording of the current stage sets the
\* flag and arms both; completing a stage, completing the run and stop clear
\* the flag and stop both.
C40_TimersArmedExactlyWhileRecording ==
    /\ mgr.is_recording <=> mgr.stage_timer
    /\ mgr.is_recording <=> mgr.stage_duration_timer
    /\ \A i \in 1 .. Len(guides) :
          LET w == start_stage_recording(World, guides[i].stage)
          IN w.mgr.is_recording # mgr.is_recording
                => w.mgr.is_recording /\ w.mgr.stage_timer /\ w.mgr.stage_duration_timer
    /\ \A w \in {complete_current_stage(World), complete_all_stages(World),
                 stop_multi_stage_recording(World)} :
          ~w.mgr.is_recording /\ ~w.mgr.stage_timer /\ ~w.mgr.stage_duration_timer

\* A stage that is recording, both timers running.
C40_Witness ==
    /\ mgr.is_recording /\ mgr.stage_timer /\ mgr.stage_duration_timer
    /\ mgr.current_stage = 1
    /\ hist.saved[1] > 0

=============================================================================
